---- MODULE Spec2Model ----
(***************************************************************************)
(* Model of the stall recommendation engine of the campus food app         *)
(* (server/services/recommendations.ts, specification Spec) and of its     *)
(* route POST /api/delivery-requests with the storage behind it            *)
(* (specification SpecDelivery).                                           *)
(*                                                                         *)
(* Representation choices                                                  *)
(*  - A JavaScript string is a sequence of one-character strings, so that  *)
(*    toLowerCase, includes and parseFloat are computed, not assumed.      *)
(*  - A JavaScript number is a record [nan, n, d]: either NaN or the exact *)
(*    rational n/d in lowest terms with d > 0.  Arithmetic is exact        *)
(*    (IEEE rounding is not modelled); NaN propagates through arithmetic   *)
(*    and makes every comparison false, as in the language.                *)
(*  - An optional value (T | undefined | null) is a sequence of length at  *)
(*    most one: None is <<>>, Some(x) is <<x>>.                            *)
(*  - Distances are carried in whole metres: calculateDistance is the      *)
(*    Haversine formula of the source tabulated on the coordinates the     *)
(*    model uses and rounded to the nearest metre.                         *)
(***************************************************************************)
EXTENDS Integers, Sequences, FiniteSets, TLC

(***************************************************************************)
(* Optional values                                                         *)
(***************************************************************************)
None == <<>>

Some(x) == <<x>>

IsSome(o) == Len(o) = 1

IsNone(o) == Len(o) = 0

Val(o) == o[1]

(***************************************************************************)
(* JavaScript numbers: NaN or an exact rational                            *)
(***************************************************************************)
Abs(x) == IF x < 0 THEN -x ELSE x

RECURSIVE Gcd(_, _)
Gcd(a, b) == IF b = 0 THEN a ELSE Gcd(b, a % b)

NaN == [nan |-> TRUE, n |-> 0, d |-> 1]

Num(n, d) ==
  LET s == IF d < 0 THEN -1 ELSE 1
      g == Gcd(Abs(n), Abs(d))
  IN  [nan |-> FALSE, n |-> (s * n) \div g, d |-> (s * d) \div g]

Int2Num(i) == [nan |-> FALSE, n |-> i, d |-> 1]

IsNaN(x) == x.nan

Lcm(a, b) == (a \div Gcd(a, b)) * b

NumAdd(x, y) ==
  IF x.nan \/ y.nan THEN NaN
  ELSE LET l == Lcm(x.d, y.d)
       IN  Num(x.n * (l \div x.d) + y.n * (l \div y.d), l)

NumNeg(x) == IF x.nan THEN NaN ELSE [nan |-> FALSE, n |-> -x.n, d |-> x.d]

NumSub(x, y) == NumAdd(x, NumNeg(y))

NumMul(x, y) ==
  IF x.nan \/ y.nan THEN NaN
  ELSE LET g1 == Gcd(Abs(x.n), y.d)
           g2 == Gcd(Abs(y.n), x.d)
       IN  Num((x.n \div g1) * (y.n \div g2), (x.d \div g2) * (y.d \div g1))

\* x / y for y # 0 (every divisor of the engine is a non-zero limit)
NumDiv(x, y) ==
  IF x.nan \/ y.nan THEN NaN
  ELSE NumMul(x, Num(y.d, y.n))

\* x > y, x >= y, x = y: false as soon as one side is NaN
NumGt(x, y) == ~x.nan /\ ~y.nan /\ x.n * y.d > y.n * x.d

NumGe(x, y) == ~x.nan /\ ~y.nan /\ x.n * y.d >= y.n * x.d

NumEq(x, y) == ~x.nan /\ ~y.nan /\ x.n * y.d = y.n * x.d

\* Math.min
NumMin(x, y) ==
  IF x.nan \/ y.nan THEN NaN ELSE IF NumGt(x, y) THEN y ELSE x

Zero == Int2Num(0)

One == Int2Num(1)

Half == Num(1, 2)

(***************************************************************************)
(* JavaScript strings                                                      *)
(***************************************************************************)
UpperCase ==
  <<"A","B","C","D","E","F","G","H","I","J","K","L","M",
    "N","O","P","Q","R","S","T","U","V","W","X","Y","Z">>

LowerCase ==
  <<"a","b","c","d","e","f","g","h","i","j","k","l","m",
    "n","o","p","q","r","s","t","u","v","w","x","y","z">>

LowerChar(c) ==
  IF \E i \in 1..26 : UpperCase[i] = c
  THEN LowerCase[CHOOSE i \in 1..26 : UpperCase[i] = c]
  ELSE c

\* String.prototype.toLowerCase
toLowerCase(s) == [i \in 1..Len(s) |-> LowerChar(s[i])]

\* String.prototype.includes
includes(s, sub) ==
  \E i \in 1..(Len(s) - Len(sub) + 1) : SubSeq(s, i, i + Len(sub) - 1) = sub

Digits == <<"0","1","2","3","4","5","6","7","8","9">>

IsDigit(c) == \E i \in 1..10 : Digits[i] = c

DigitVal(c) == (CHOOSE i \in 1..10 : Digits[i] = c) - 1

\* length of the longest run of digits of s starting at position i
RECURSIVE DigitRun(_, _)
DigitRun(s, i) ==
  IF i <= Len(s) /\ IsDigit(s[i]) THEN 1 + DigitRun(s, i + 1) ELSE 0

\* value of the digits s[i..j] read as a decimal integer
RECURSIVE DigitsVal(_, _, _)
DigitsVal(s, i, j) ==
  IF j < i THEN 0 ELSE 10 * DigitsVal(s, i, j - 1) + DigitVal(s[j])

RECURSIVE Pow10(_)
Pow10(k) == IF k = 0 THEN 1 ELSE 10 * Pow10(k - 1)

\* parseFloat: the longest prefix of the form [-]digits[.digits] (or
\* [-].digits), NaN when the text does not start with a number.
parseFloat(s) ==
  LET neg  == Len(s) >= 1 /\ s[1] = "-"
      i0   == IF neg THEN 2 ELSE 1
      ni   == DigitRun(s, i0)
      dot  == i0 + ni <= Len(s) /\ s[i0 + ni] = "."
      nf   == IF dot THEN DigitRun(s, i0 + ni + 1) ELSE 0
      ip   == DigitsVal(s, i0, i0 + ni - 1)
      fp   == DigitsVal(s, i0 + ni + 1, i0 + ni + nf)
      mag  == Num(ip * Pow10(nf) + fp, Pow10(nf))
  IN  IF ni = 0 /\ nf = 0 THEN NaN
      ELSE IF neg THEN NumNeg(mag) ELSE mag

\* truthiness of a nullable string: null, undefined and "" are falsy
Truthy(o) == IsSome(o) /\ Len(Val(o)) > 0

\* (o || dflt) for a nullable string o
OrElse(o, dflt) == IF Truthy(o) THEN Val(o) ELSE dflt

(***************************************************************************)
(* Text literals used by the engine and by the input snapshots             *)
(***************************************************************************)
StrMeat == <<"m","e","a","t">>

StrHalal == <<"h","a","l","a","l">>

StrVegetarian == <<"v","e","g","e","t","a","r","i","a","n">>

StrZero == <<"0">>

\* the literal "3.5" of the rating fallback
StrDefaultRating == <<"3",".","5">>

(***************************************************************************)
(* WEIGHTS                                                                 *)
(***************************************************************************)
WEIGHTS ==
  [PREFERENCE |-> Num(35, 100), PROXIMITY |-> Num(25, 100),
   QUEUE |-> Num(20, 100), RATING |-> Num(20, 100)]

(***************************************************************************)
(* calculateDistance: Haversine distance in metres.  The trigonometric     *)
(* formula is tabulated: HaversineMetres lists, for each pair of distinct  *)
(* coordinates of the model, the value the source formula yields (double   *)
(* precision, R = 6371e3) rounded to the nearest metre.  NaN arguments     *)
(* give NaN, coincident coordinates give 0 (a = 0, c = 0).                 *)
(***************************************************************************)
CoordOrigin == <<Num(0, 1), Num(0, 1)>>

\* 1.2966000, 103.7764000 (Block A of the seed data)
CoordA == <<Num(12966, 10000), Num(1037764, 10000)>>

\* 1.2956000, 103.7774000 (Block B of the seed data)
CoordB == <<Num(12956, 10000), Num(1037774, 10000)>>

\* 1.2992980, 103.7764000 (300 m north of Block A)
CoordU == <<Num(1299298, 1000000), Num(1037764, 10000)>>

\* 1.3019960, 103.7764000 (600 m north of Block A)
CoordV == <<Num(13019960, 10000000), Num(1037764, 10000)>>

HaversineMetres ==
  { <<CoordA, CoordB, 157>>,
    <<CoordA, CoordU, 300>>,
    <<CoordB, CoordU, 426>>,
    <<CoordA, CoordV, 600>>,
    <<CoordB, CoordV, 720>>,
    <<CoordU, CoordV, 300>>,
    <<CoordA, CoordOrigin, 11539009>>,
    <<CoordB, CoordOrigin, 11539121>>,
    <<CoordU, CoordOrigin, 11539008>>,
    <<CoordV, CoordOrigin, 11539006>> }

calculateDistance(lat1, lon1, lat2, lon2) ==
  IF lat1.nan \/ lon1.nan \/ lat2.nan \/ lon2.nan THEN NaN
  ELSE IF lat1 = lat2 /\ lon1 = lon2 THEN Zero
  ELSE LET p == <<lat1, lon1>>
           q == <<lat2, lon2>>
           e == CHOOSE t \in HaversineMetres :
                  \/ t[1] = p /\ t[2] = q
                  \/ t[1] = q /\ t[2] = p
       IN  Int2Num(e[3])

(***************************************************************************)
(* calculatePreferenceScore                                                *)
(***************************************************************************)
HasConflict(stallCuisine, dietaryRestrictions) ==
  \E k \in 1..Len(dietaryRestrictions) :
    LET restriction == dietaryRestrictions[k]
    IN  \/ /\ toLowerCase(restriction) = StrVegetarian
           /\ includes(toLowerCase(stallCuisine), StrMeat)
        \/ /\ toLowerCase(restriction) = StrHalal
           /\ ~includes(toLowerCase(stallCuisine), StrHalal)

IsPreferred(userCuisines, stallCuisine) ==
  \E k \in 1..Len(userCuisines) :
    toLowerCase(userCuisines[k]) = toLowerCase(stallCuisine)

\* variant of calculatePreferenceScore that looks for a match first
calculatePreferenceScore_MatchFirst(userCuisines, stallCuisine, dietaryRestrictions) ==
  IF IsPreferred(userCuisines, stallCuisine) THEN One
  ELSE IF HasConflict(stallCuisine, dietaryRestrictions) THEN Zero
  ELSE Num(3, 10)

calculatePreferenceScore(userCuisines, stallCuisine, dietaryRestrictions) ==
  IF HasConflict(stallCuisine, dietaryRestrictions) THEN Zero
  ELSE IF IsPreferred(userCuisines, stallCuisine) THEN One
  ELSE Num(3, 10)

(***************************************************************************)
(* Normalisers                                                             *)
(***************************************************************************)
normalizeProximity(distanceMeters, maxDistance) ==
  IF NumGe(distanceMeters, maxDistance) THEN Zero
  ELSE NumSub(One, NumDiv(distanceMeters, maxDistance))

\* variant of normalizeQueueTime computing (1 - waitMinutes) / maxWait
normalizeQueueTime_Misparenthesised(waitMinutes, maxWait) ==
  IF NumGe(waitMinutes, maxWait) THEN Zero
  ELSE NumDiv(NumSub(One, waitMinutes), maxWait)

normalizeQueueTime(waitMinutes, maxWait) ==
  IF NumGe(waitMinutes, maxWait) THEN Zero
  ELSE NumSub(One, NumDiv(waitMinutes, maxWait))

normalizeRating(rating) ==
  LET ratingNum == parseFloat(rating)
  IN  IF IsNaN(ratingNum) THEN Half
      ELSE NumMin(NumDiv(ratingNum, Int2Num(5)), One)

(***************************************************************************)
(* calculateRecommendations, stage by stage                                *)
(***************************************************************************)
\* the defaults used in place of an absent preferences record
DefaultPrefs ==
  [cuisineTypes |-> Some(<<>>), dietaryRestrictions |-> Some(<<>>),
   maxQueueTime |-> 30, maxWalkingDistance |-> 1000]

\* prefs = preferences || {...}
ResolvePrefs(preferences) ==
  IF IsSome(preferences) THEN Val(preferences) ELSE DefaultPrefs

\* (list || []) for a nullable array
ListOrEmpty(o) == IF IsSome(o) THEN Val(o) ELSE <<>>

\* (n || dflt) for a number: 0 is falsy
NumberOr(n, dflt) == IF n = 0 THEN dflt ELSE n

EffCuisineTypes(preferences) == ListOrEmpty(ResolvePrefs(preferences).cuisineTypes)

EffDietaryRestrictions(preferences) ==
  ListOrEmpty(ResolvePrefs(preferences).dietaryRestrictions)

EffMaxQueueTime(preferences) ==
  NumberOr(ResolvePrefs(preferences).maxQueueTime, 30)

EffMaxWalkingDistance(preferences) ==
  NumberOr(ResolvePrefs(preferences).maxWalkingDistance, 1000)

\* variant of Confidence that does not look at the cuisine list
Confidence_IgnoresCuisines(preferences, userBlock) ==
  IF IsNone(userBlock) THEN "low"
  ELSE IF IsNone(preferences) THEN "medium"
  ELSE "high"

\* confidence level from the data available
Confidence(preferences, userBlock) ==
  IF IsNone(userBlock) THEN "low"
  ELSE IF IsNone(preferences) \/ Len(EffCuisineTypes(preferences)) = 0
       THEN "medium"
  ELSE "high"

\* Array.prototype.find: the first element satisfying the test, if any
FindCanteen(canteens, canteenId) ==
  IF \E i \in 1..Len(canteens) : canteens[i].id = canteenId
  THEN LET i == CHOOSE i \in 1..Len(canteens) :
                  /\ canteens[i].id = canteenId
                  /\ \A j \in 1..(i - 1) : canteens[j].id # canteenId
       IN  Some(canteens[i])
  ELSE None

\* variant of FindCanteenBlock that looks for the first block of the canteen
\* that carries coordinates
FindCanteenBlock_WithCoordinates(blocks, canteenId) ==
  LET Fits(i) == /\ blocks[i].nearestCanteenId = Some(canteenId)
                 /\ Truthy(blocks[i].latitude)
                 /\ Truthy(blocks[i].longitude)
  IN  IF \E i \in 1..Len(blocks) : Fits(i)
      THEN Some(blocks[CHOOSE i \in 1..Len(blocks) :
                         Fits(i) /\ \A j \in 1..(i - 1) : ~Fits(j)])
      ELSE None

FindCanteenBlock(blocks, canteenId) ==
  IF \E i \in 1..Len(blocks) : blocks[i].nearestCanteenId = Some(canteenId)
  THEN LET i == CHOOSE i \in 1..Len(blocks) :
                  /\ blocks[i].nearestCanteenId = Some(canteenId)
                  /\ \A j \in 1..(i - 1) : blocks[j].nearestCanteenId # Some(canteenId)
       IN  Some(blocks[i])
  ELSE None

\* the distance of one stall: defined only when the user block, the canteen
\* and a canteen block with truthy coordinates are all there
StallDistance(stall, userBlock, canteens, blocks) ==
  LET canteen == FindCanteen(canteens, stall.canteenId)
  IN  IF IsSome(userBlock) /\ IsSome(canteen)
      THEN LET canteenBlock == FindCanteenBlock(blocks, Val(canteen).id)
           IN  IF /\ IsSome(canteenBlock)
                  /\ Truthy(Val(canteenBlock).latitude)
                  /\ Truthy(Val(canteenBlock).longitude)
               THEN Some(calculateDistance(
                      parseFloat(OrElse(Val(userBlock).latitude, StrZero)),
                      parseFloat(OrElse(Val(userBlock).longitude, StrZero)),
                      parseFloat(OrElse(Val(canteenBlock).latitude, StrZero)),
                      parseFloat(OrElse(Val(canteenBlock).longitude, StrZero))))
               ELSE None
      ELSE None

\* stalls.map(stall => ({ stall, canteen, distance }))
StallsWithDistance(userBlock, stalls, canteens, blocks) ==
  [i \in 1..Len(stalls) |->
     [stall |-> stalls[i],
      canteen |-> FindCanteen(canteens, stalls[i].canteenId),
      distance |-> StallDistance(stalls[i], userBlock, canteens, blocks)]]

\* variant of PassesHardFilter without the queue-time test
PassesHardFilter_NoQueueCheck(e, maxQueueTime, maxWalkingDistance) ==
  IF IsSome(e.distance) /\ NumGt(Val(e.distance), Int2Num(maxWalkingDistance))
  THEN FALSE
  ELSE TRUE

\* variant of PassesHardFilter without the walking-distance test
PassesHardFilter_NoDistanceCheck(e, maxQueueTime, maxWalkingDistance) ==
  IF e.stall.estimatedWaitTime > maxQueueTime THEN FALSE ELSE TRUE

\* variant of PassesHardFilter that rejects a stall at a limit (>= for >)
PassesHardFilter_AtLimitRejected(e, maxQueueTime, maxWalkingDistance) ==
  IF e.stall.estimatedWaitTime >= maxQueueTime THEN FALSE
  ELSE IF IsSome(e.distance) /\ NumGe(Val(e.distance), Int2Num(maxWalkingDistance))
       THEN FALSE
  ELSE TRUE

\* the predicate of the hard filter: TRUE keeps the stall
PassesHardFilter(e, maxQueueTime, maxWalkingDistance) ==
  IF e.stall.estimatedWaitTime > maxQueueTime THEN FALSE
  ELSE IF IsSome(e.distance) /\ NumGt(Val(e.distance), Int2Num(maxWalkingDistance))
       THEN FALSE
  ELSE TRUE

\* variant of ProximityScore that scores an unknown distance as too far
ProximityScore_ZeroFallback(distance, maxWalkingDistance) ==
  IF IsSome(distance)
  THEN normalizeProximity(Val(distance), Int2Num(maxWalkingDistance))
  ELSE Zero

ProximityScore(distance, maxWalkingDistance) ==
  IF IsSome(distance)
  THEN normalizeProximity(Val(distance), Int2Num(maxWalkingDistance))
  ELSE Half

\* variant of PreferenceScore that always consults calculatePreferenceScore
PreferenceScore_AlwaysComputed(cuisineTypes, stall, dietaryRestrictions) ==
  calculatePreferenceScore(cuisineTypes, stall.cuisineType, dietaryRestrictions)

PreferenceScore(cuisineTypes, stall, dietaryRestrictions) ==
  IF Len(cuisineTypes) > 0
  THEN calculatePreferenceScore(cuisineTypes, stall.cuisineType, dietaryRestrictions)
  ELSE Half

QueueScore(stall, maxQueueTime) ==
  normalizeQueueTime(Int2Num(stall.estimatedWaitTime), Int2Num(maxQueueTime))

\* variant of RatingScore that takes a rating of "0" as no rating
RatingScore_ZeroIsAbsent(stall) ==
  IF IsNone(stall.rating) \/ stall.rating = Some(StrZero)
  THEN normalizeRating(StrDefaultRating)
  ELSE normalizeRating(Val(stall.rating))

RatingScore(stall) == normalizeRating(OrElse(stall.rating, StrDefaultRating))

\* variant of TotalScore with the preference and proximity weights exchanged
TotalScore_SwappedWeights(preferenceScore, proximityScore, queueScore, ratingScore) ==
  NumAdd(NumAdd(NumAdd(NumMul(preferenceScore, WEIGHTS.PROXIMITY),
                       NumMul(proximityScore, WEIGHTS.PREFERENCE)),
                NumMul(queueScore, WEIGHTS.QUEUE)),
         NumMul(ratingScore, WEIGHTS.RATING))

TotalScore(preferenceScore, proximityScore, queueScore, ratingScore) ==
  NumAdd(NumAdd(NumAdd(NumMul(preferenceScore, WEIGHTS.PREFERENCE),
                       NumMul(proximityScore, WEIGHTS.PROXIMITY)),
                NumMul(queueScore, WEIGHTS.QUEUE)),
         NumMul(ratingScore, WEIGHTS.RATING))

\* one element of scoredStalls
ScoreStall(e, cuisineTypes, dietaryRestrictions, maxQueueTime, maxWalkingDistance, confidence) ==
  LET proximityScore == ProximityScore(e.distance, maxWalkingDistance)
      preferenceScore == PreferenceScore(cuisineTypes, e.stall, dietaryRestrictions)
      queueScore == QueueScore(e.stall, maxQueueTime)
      ratingScore == RatingScore(e.stall)
  IN  [stall |-> e.stall,
       canteen |-> e.canteen,
       distance |-> e.distance,
       score |-> TotalScore(preferenceScore, proximityScore, queueScore, ratingScore),
       breakdown |-> [preferenceScore |-> preferenceScore,
                      proximityScore |-> proximityScore,
                      queueScore |-> queueScore,
                      ratingScore |-> ratingScore],
       confidence |-> confidence]

\* variant of PassesSoftFilter that keeps a score of exactly 0.1
PassesSoftFilter_Inclusive(s) == NumGe(s.score, Num(1, 10))

\* variant of PassesSoftFilter with the threshold 0.15
PassesSoftFilter_HigherThreshold(s) == NumGt(s.score, Num(15, 100))

\* the predicate of the soft filter: s.score > 0.1
PassesSoftFilter(s) == NumGt(s.score, Num(1, 10))

\* variant of ComesBefore for the comparator a.score - b.score
ComesBefore_Ascending(b, a) == NumGt(a.score, b.score)

\* variant of ComesBefore that also moves b ahead of an a of equal score
ComesBefore_OrEqual(b, a) == NumGe(b.score, a.score)

\* the comparator (a, b) => b.score - a.score is positive: b goes before a
ComesBefore(b, a) == NumGt(b.score, a.score)

\* Array.prototype.sort is stable: an element is placed after every element
\* already placed that it does not have to precede
RECURSIVE InsertSorted(_, _)
InsertSorted(sorted, x) ==
  IF sorted = <<>> THEN <<x>>
  ELSE IF ComesBefore(x, Head(sorted)) THEN <<x>> \o sorted
  ELSE <<Head(sorted)>> \o InsertSorted(Tail(sorted), x)

RECURSIVE SortByScore(_)
SortByScore(seq) ==
  IF seq = <<>> THEN <<>>
  ELSE InsertSorted(SortByScore(SubSeq(seq, 1, Len(seq) - 1)), seq[Len(seq)])

\* stallsWithDistance.filter(...): the hard filters
HardFilter(stallsWithDistance, preferences) ==
  LET maxQueueTime == EffMaxQueueTime(preferences)
      maxWalkingDistance == EffMaxWalkingDistance(preferences)
      Hard(e) == PassesHardFilter(e, maxQueueTime, maxWalkingDistance)
  IN  SelectSeq(stallsWithDistance, Hard)

\* filteredStalls.map(...): one ScoredStall for each stall that passed
ScoreAll(filtered, preferences, userBlock) ==
  [i \in 1..Len(filtered) |->
     ScoreStall(filtered[i], EffCuisineTypes(preferences),
                EffDietaryRestrictions(preferences),
                EffMaxQueueTime(preferences),
                EffMaxWalkingDistance(preferences),
                Confidence(preferences, userBlock))]

\* variant of Rank that returns the best entry only
Rank_TopOne(scored) ==
  LET sorted == SortByScore(SelectSeq(scored, PassesSoftFilter))
  IN  IF sorted = <<>> THEN <<>> ELSE <<sorted[1]>>

\* scoredStalls.filter(s => s.score > 0.1).sort(...)
Rank(scored) == SortByScore(SelectSeq(scored, PassesSoftFilter))

\* variant of StallsAfterCall in which the input array is reordered in place
StallsAfterCall_Reversed(stalls) ==
  [i \in 1..Len(stalls) |-> stalls[Len(stalls) + 1 - i]]

\* the input array once the call has returned: map and filter build new
\* arrays and sort works on the array filter returned, so it is as it was
StallsAfterCall(stalls) == stalls

\* the function as a whole; the user record is an argument it never reads
calculateRecommendations(user, preferences, userBlock, stalls, canteens, blocks) ==
  Rank(ScoreAll(HardFilter(StallsWithDistance(userBlock, stalls, canteens, blocks),
                           preferences),
                preferences, userBlock))

(***************************************************************************)
(* Input snapshots                                                         *)
(***************************************************************************)
\* longest stalls sequence of a snapshot
MaxStalls == 2

StrChinese == <<"C","h","i","n","e","s","e">>

StrHalalMeat == <<"H","a","l","a","l"," ","M","e","a","t">>

StrLatA == <<"1",".","2","9","6","6","0","0","0">>

StrLonA == <<"1","0","3",".","7","7","6","4","0","0","0">>

StrLatB == <<"1",".","2","9","5","6","0","0","0">>

StrLonB == <<"1","0","3",".","7","7","7","4","0","0","0">>

StrLatU == <<"1",".","2","9","9","2","9","8","0">>

StrLatV == <<"1",".","3","0","1","9","9","6","0">>

StrNotANumber == <<"a","b","c">>

\* the canteens of a snapshot
Canteens ==
  << [id |-> "c1", name |-> "North Canteen"],
     [id |-> "c2", name |-> "South Canteen"] >>

\* the campus blocks of a snapshot: b1 is the block of canteen c1; canteen c2
\* has a first block without coordinates and a later one with coordinates;
\* b4 lies 300 m from b1; b5 carries a latitude that is not a number; b6 lies
\* 600 m from b1
Blocks ==
  << [id |-> "b1", nearestCanteenId |-> Some("c1"),
      latitude |-> Some(StrLatA), longitude |-> Some(StrLonA)],
     [id |-> "b2", nearestCanteenId |-> Some("c2"),
      latitude |-> None, longitude |-> None],
     [id |-> "b3", nearestCanteenId |-> Some("c2"),
      latitude |-> Some(StrLatB), longitude |-> Some(StrLonB)],
     [id |-> "b4", nearestCanteenId |-> None,
      latitude |-> Some(StrLatU), longitude |-> Some(StrLonA)],
     [id |-> "b5", nearestCanteenId |-> None,
      latitude |-> Some(StrNotANumber), longitude |-> Some(StrLonA)],
     [id |-> "b6", nearestCanteenId |-> None,
      latitude |-> Some(StrLatV), longitude |-> Some(StrLonA)] >>

\* canteen references of a stall: c9 names no canteen of the snapshot
CanteenIds == {"c1", "c2", "c9"}

CuisineLabels == {StrChinese, StrHalalMeat}

WaitTimes == {0, 20, 45}

StrNegativeRating == <<"-","3",".","2","5">>

StrHighRating == <<"6",".","0","0">>

\* stored rating texts: absent, "0", a text that is not a number, the mean
\* "-3.25" of four ratings -3, -3, -3, -4 and the mean "6.00" of a rating 6
\* (a rating is any integer)
RatingTexts ==
  {None, Some(StrZero), Some(StrNotANumber), Some(StrNegativeRating),
   Some(StrHighRating)}

\* the attributes of a stall other than its id
StallShapes ==
  [canteenId : CanteenIds, cuisineType : CuisineLabels,
   estimatedWaitTime : WaitTimes, rating : RatingTexts]

\* the stall of shape sh stored under the id of position i
MkStall(i, sh) ==
  [id |-> i, canteenId |-> sh.canteenId, cuisineType |-> sh.cuisineType,
   estimatedWaitTime |-> sh.estimatedWaitTime, rating |-> sh.rating]

\* shapes used for the snapshots of several stalls: unrated stalls of the two
\* canteens without a queue, and one with a wait over every limit
SeedShapes ==
  { sh \in StallShapes :
      /\ sh.canteenId \in {"c1", "c2"}
      /\ \/ sh.estimatedWaitTime = 0
         \/ /\ sh.estimatedWaitTime = 45
            /\ sh.cuisineType = StrChinese
            /\ sh.canteenId = "c1"
      /\ sh.rating = None }

SeqsOver(shapes, n) ==
  { [i \in 1..n |-> MkStall(i, f[i])] : f \in [1..n -> shapes] }

\* every snapshot of one stall, and the snapshots of up to MaxStalls seed stalls
StallSeqs ==
  SeqsOver(StallShapes, 1) \cup UNION { SeqsOver(SeedShapes, n) : n \in 0..MaxStalls }

PreferenceRecords ==
  [cuisineTypes : {None, Some(<<>>), Some(<<toLowerCase(StrChinese)>>)},
   dietaryRestrictions :
     {Some(<<>>), Some(<<<<"V">> \o Tail(StrVegetarian)>>), Some(<<StrHalal>>)},
   maxQueueTime : {0, 20},
   maxWalkingDistance : {0, 200, 300}]

PreferenceInputs == {None} \cup {Some(p) : p \in PreferenceRecords}

UserBlockInputs == {None} \cup {Some(Blocks[i]) : i \in 1..Len(Blocks)}

(***************************************************************************)
(* JavaScript text operations of the delivery route                        *)
(***************************************************************************)
\* the decimal digits of a natural number
RECURSIVE IntToText(_)
IntToText(n) ==
  IF n < 10 THEN <<Digits[n + 1]>>
  ELSE IntToText(n \div 10) \o <<Digits[(n % 10) + 1]>>

\* Number.prototype.toFixed(2) of a number that is not negative and not NaN;
\* exact for the numbers of at most two decimals that the model feeds it
toFixed2(x) ==
  LET cents == (200 * x.n + x.d) \div (2 * x.d)
  IN  IntToText(cents \div 100) \o <<".">> \o
      <<Digits[((cents % 100) \div 10) + 1], Digits[(cents % 10) + 1]>>

\* String.prototype.replace(/c/g, r) for a one-character pattern c
RECURSIVE replaceAll(_, _, _)
replaceAll(s, c, r) ==
  IF \A i \in 1..Len(s) : s[i] # c THEN s
  ELSE IF Len(s) = 1 THEN r
  ELSE LET h == Len(s) \div 2
       IN  replaceAll(SubSeq(s, 1, h), c, r) \o replaceAll(SubSeq(s, h + 1, Len(s)), c, r)

\* String.prototype.substring(0, end)
substring(s, end) == SubSeq(s, 1, IF Len(s) < end THEN Len(s) ELSE end)

WhiteSpace == {" ", "\t", "\n", "\r"}

\* String.prototype.trimStart and trimEnd
RECURSIVE trimStart(_)
trimStart(s) ==
  IF Len(s) > 0 /\ s[1] \in WhiteSpace THEN trimStart(Tail(s)) ELSE s

RECURSIVE trimEnd(_)
trimEnd(s) ==
  IF Len(s) > 0 /\ s[Len(s)] \in WhiteSpace
  THEN trimEnd(SubSeq(s, 1, Len(s) - 1))
  ELSE s

\* String.prototype.trim
trim(s) == trimEnd(trimStart(s))

\* the length limit of a sanitized text
MaxTextLength == 500

StrLt == <<"&","l","t",";">>

StrGt == <<"&","g","t",";">>

StrQuot == <<"&","q","u","o","t",";">>

StrApos == <<"&","#","x","2","7",";">>

StrSlash == <<"&","#","x","2","F",";">>

\* variant of sanitizeText that cuts the text before it escapes it
sanitizeText_CutFirst(text) ==
  replaceAll(
    replaceAll(
      replaceAll(
        replaceAll(
          replaceAll(substring(text, MaxTextLength), "<", StrLt),
          ">", StrGt),
        "\"", StrQuot),
      "'", StrApos),
    "/", StrSlash)

\* sanitizeText of POST /api/delivery-requests
sanitizeText(text) ==
  substring(
    replaceAll(
      replaceAll(
        replaceAll(
          replaceAll(
            replaceAll(text, "<", StrLt),
            ">", StrGt),
          "\"", StrQuot),
        "'", StrApos),
      "/", StrSlash),
    MaxTextLength)

(***************************************************************************)
(* Pricing of POST /api/delivery-requests                                  *)
(***************************************************************************)
\* sgHour and sgMinute of a server time
sgHour(now) == (now.utcHours + 8) % 24

sgMinute(now) == now.utcMinutes

isPeakHour(now) ==
  \/ sgHour(now) = 11 /\ sgMinute(now) >= 30
  \/ sgHour(now) = 12
  \/ sgHour(now) = 13 /\ sgMinute(now) < 30
  \/ sgHour(now) = 17 /\ sgMinute(now) >= 30
  \/ sgHour(now) = 18
  \/ sgHour(now) = 19 /\ sgMinute(now) < 30

baseDeliveryFee == Num(150, 100)

peakSurcharge == Num(50, 100)

deliveryFee(now) ==
  IF isPeakHour(now) THEN NumAdd(baseDeliveryFee, peakSurcharge) ELSE baseDeliveryFee

(***************************************************************************)
(* Storage operations used by POST /api/delivery-requests                  *)
(***************************************************************************)
\* the two implementations of IStorage; NODE_ENV selects one
StorageKinds == {"MemStorage", "DbStorage"}

getUserByUsername(users, username) ==
  IF \E i \in 1..Len(users) : users[i].username = username
  THEN Some(users[CHOOSE i \in 1..Len(users) :
                    /\ users[i].username = username
                    /\ \A j \in 1..(i - 1) : users[j].username # username])
  ELSE None

\* getStall(req.body.stallId): nothing is stored under an absent id
getStall(stalls, id) ==
  IF IsSome(id) /\ \E i \in 1..Len(stalls) : stalls[i].id = Val(id)
  THEN Some(stalls[CHOOSE i \in 1..Len(stalls) : stalls[i].id = Val(id)])
  ELSE None

\* variant of getCampusBlock that answers an unknown id with a block
getCampusBlock_Lenient(blocks, id) ==
  IF \E i \in 1..Len(blocks) : blocks[i].id = id
  THEN Some(blocks[CHOOSE i \in 1..Len(blocks) : blocks[i].id = id])
  ELSE Some(blocks[1])

getCampusBlock(blocks, id) ==
  IF \E i \in 1..Len(blocks) : blocks[i].id = id
  THEN Some(blocks[CHOOSE i \in 1..Len(blocks) : blocks[i].id = id])
  ELSE None

\* the request MemStorage builds and stores: the id, the customer, the stall
\* and the defaults; no other field of insertRequest is copied
MemDeliveryRequest(id, insertRequest, now) ==
  [id |-> id,
   customerId |-> insertRequest.customerId,
   stallId |-> insertRequest.stallId,
   foodItems |-> None,
   totalAmount |-> None,
   deliveryFee |-> None,
   isPeakHour |-> None,
   pickupLocation |-> None,
   deliveryLocation |-> None,
   deliveryBlockId |-> None,
   deliveryPersonId |-> None,
   status |-> "pending",
   createdAt |-> now,
   acceptedAt |-> None,
   deliveredAt |-> None]

\* the row DbStorage inserts: { ...insertRequest, id } and the column defaults
DbDeliveryRequest(id, insertRequest, now) ==
  [id |-> id,
   customerId |-> insertRequest.customerId,
   stallId |-> insertRequest.stallId,
   foodItems |-> Some(insertRequest.foodItems),
   totalAmount |-> Some(insertRequest.totalAmount),
   deliveryFee |-> Some(insertRequest.deliveryFee),
   isPeakHour |-> Some(insertRequest.isPeakHour),
   pickupLocation |-> Some(insertRequest.pickupLocation),
   deliveryLocation |-> Some(insertRequest.deliveryLocation),
   deliveryBlockId |-> insertRequest.deliveryBlockId,
   deliveryPersonId |-> None,
   status |-> "pending",
   createdAt |-> now,
   acceptedAt |-> None,
   deliveredAt |-> None]

\* the request createDeliveryRequest stores and returns; randomUUID gives an
\* id no stored request has
createDeliveryRequest(storage, deliveryRequests, insertRequest, now) ==
  IF storage = "MemStorage"
  THEN MemDeliveryRequest(Len(deliveryRequests) + 1, insertRequest, now)
  ELSE DbDeliveryRequest(Len(deliveryRequests) + 1, insertRequest, now)

(***************************************************************************)
(* The handler of POST /api/delivery-requests                              *)
(***************************************************************************)
\* truthiness of an optional id
TruthyId(o) == IsSome(o) /\ Val(o) # ""

BadRequest(error) == [status |-> 400, error |-> error, created |-> None]

\* the object handed to insertDeliveryRequestSchema.parse, which accepts it
\* as it is (every field of a modelled body is a text, a flag or absent)
ValidatedData(body, demoUser, now) ==
  [customerId |-> demoUser.id,
   stallId |-> Val(body.stallId),
   foodItems |-> sanitizeText(OrElse(body.foodItems, <<>>)),
   totalAmount |-> toFixed2(parseFloat(OrElse(body.totalAmount, StrZero))),
   deliveryFee |-> toFixed2(deliveryFee(now)),
   isPeakHour |-> isPeakHour(now),
   pickupLocation |-> sanitizeText(OrElse(body.pickupLocation, <<>>)),
   deliveryLocation |-> sanitizeText(OrElse(body.deliveryLocation, <<>>)),
   deliveryBlockId |-> body.deliveryBlockId]

\* what the handler answers to a request body, and the request it creates
HandlePost(body, storage, users, stalls, blocks, deliveryRequests, now) ==
  LET demoUser == getUserByUsername(users, "demo_user")
      foodTotal == parseFloat(OrElse(body.totalAmount, StrZero))
      foodItems == sanitizeText(OrElse(body.foodItems, <<>>))
  IN  IF IsNone(demoUser) THEN BadRequest("User not found")
      ELSE IF IsNaN(foodTotal) \/ NumGe(Zero, foodTotal)
                \/ NumGt(foodTotal, Int2Num(1000))
      THEN BadRequest("Invalid food total amount (must be between $0.01 and $1000)")
      ELSE IF IsNone(getStall(stalls, body.stallId))
      THEN BadRequest("Invalid stall ID")
      ELSE IF Len(trim(foodItems)) = 0
      THEN BadRequest("Food items cannot be empty")
      ELSE IF /\ TruthyId(body.deliveryBlockId)
              /\ IsNone(getCampusBlock(blocks, Val(body.deliveryBlockId)))
      THEN BadRequest("Invalid delivery location")
      ELSE [status |-> 200, error |-> "",
            created |-> Some(createDeliveryRequest(storage, deliveryRequests,
                               ValidatedData(body, Val(demoUser), now), now))]

(***************************************************************************)
(* Requests to POST /api/delivery-requests and the data they meet          *)
(***************************************************************************)
\* most delivery requests stored in a run
MaxDeliveryRequests == 1

DemoUser ==
  [id |-> "u1", username |-> "demo_user", currentBlockId |-> Some("b1"),
   phoneNumber |-> None, deliveryAvailable |-> FALSE, isDeliveryPerson |-> FALSE]

\* the stalls in storage when delivery requests arrive
DeliveryStalls ==
  << MkStall(1, [canteenId |-> "c1", cuisineType |-> StrChinese,
                 estimatedWaitTime |-> 0, rating |-> None]) >>

\* server times: every hour of the day (UTC), at the minutes around the
\* half hour and at both ends of the hour
ServerTimes == [utcHours : 0..23, utcMinutes : {0, 29, 30, 31, 59}]

StrRice == <<"r","i","c","e">>

\* a text that sanitizeText cuts: 499 letters, then "<b"
StrLongText == [i \in 1..499 |-> "a"] \o <<"<", "b">>

\* totalAmount as sent: not a number, 0, negative, the smallest and the
\* largest accepted amount, an amount over the limit, and a number followed
\* by letters
TotalAmountTexts ==
  { None, Some(StrNotANumber), Some(StrZero), Some(<<"-","5">>),
    Some(<<"0",".","0","1">>), Some(<<"1","0","0","0">>),
    Some(<<"1","0","0","0",".","0","1">>), Some(<<"7","k","g">>) }

\* foodItems as sent: absent, blank, with every character that is escaped,
\* and longer than the limit
FoodItemsTexts ==
  { None, Some(<<" ">>), Some(<<"<","i",">","'","\"","/">>), Some(StrLongText) }

\* a well-formed order of the demo user, without the fields a client may add
BaseBody ==
  [totalAmount |-> Some(<<"1","2",".","5">>),
   stallId |-> Some(1),
   foodItems |-> Some(StrRice),
   pickupLocation |-> Some(<<"N","o","r","t","h">>),
   deliveryLocation |-> Some(<<"B","l","o","c","k"," ","A">>),
   deliveryBlockId |-> Some("b1"),
   deliveryFee |-> None,
   isPeakHour |-> None]

\* the request bodies: the well-formed order and the orders that differ
\* from it in one respect (the last two carry a fee and a peak flag)
RequestBodies ==
  {BaseBody}
  \cup {[BaseBody EXCEPT !.totalAmount = t] : t \in TotalAmountTexts}
  \cup {[BaseBody EXCEPT !.stallId = i] : i \in {None, Some(9)}}
  \cup {[BaseBody EXCEPT !.foodItems = t] : t \in FoodItemsTexts}
  \cup {[BaseBody EXCEPT !.pickupLocation = None, !.deliveryLocation = None],
        [BaseBody EXCEPT !.pickupLocation = Some(<<"A","/","B">>),
                         !.deliveryLocation = Some(<<"<","b",">","\"","'">>)]}
  \cup {[BaseBody EXCEPT !.deliveryBlockId = b] : b \in {None, Some(""), Some("b9")}}
  \cup {[BaseBody EXCEPT !.deliveryFee = Some(StrZero), !.isPeakHour = Some(FALSE)],
        [BaseBody EXCEPT !.deliveryFee = Some(<<"9",".","9","9">>),
                         !.isPeakHour = Some(TRUE)]}

(***************************************************************************)
(* The life of a delivery request: the routes that accept it and change    *)
(* its status, and the registration that makes the demo user a delivery    *)
(* person                                                                  *)
(***************************************************************************)
\* the statuses the schema lists for a delivery request
DeliveryStatuses ==
  {"pending", "accepted", "picked_up", "delivering", "delivered", "cancelled"}

\* the status texts a client sends to PATCH /api/delivery-requests/:id/status
StatusInputs == DeliveryStatuses \cup {"done"}

\* the ids a client names in a path: those of stored requests and one more
RequestIds == 1..(MaxDeliveryRequests + 1)

StrPhone == "91234567"

\* the bodies of POST /api/users/register-delivery-person
RegisterBodies ==
  [phoneNumber : {None, Some(StrPhone)}, currentBlockId : {None, Some("b2")}]

\* the bodies of POST /api/delivery-requests used where the life of a
\* request is followed: one that is accepted and one that is rejected
StatusBodies == {BaseBody, [BaseBody EXCEPT !.stallId = None]}

Answer(status, error, request) ==
  [status |-> status, error |-> error, created |-> request]

\* the stored request of that id, if any
getDeliveryRequest(deliveryRequests, requestId) ==
  IF \E k \in 1..Len(deliveryRequests) : deliveryRequests[k].id = requestId
  THEN Some(deliveryRequests[CHOOSE k \in 1..Len(deliveryRequests) :
                               deliveryRequests[k].id = requestId])
  ELSE None

\* registerAsDeliveryPerson: the user after the update (MemStorage does not
\* keep the phone number)
registerAsDeliveryPerson(storage, u, phoneNumber, blockId) ==
  [u EXCEPT !.isDeliveryPerson = TRUE,
            !.deliveryAvailable = FALSE,
            !.currentBlockId = IF TruthyId(blockId) THEN blockId ELSE @,
            !.phoneNumber = IF storage = "DbStorage" /\ TruthyId(phoneNumber)
                            THEN phoneNumber ELSE @]

\* acceptDeliveryRequest: the stored requests after the call
acceptDeliveryRequest(deliveryRequests, requestId, deliveryPersonId, now) ==
  [k \in 1..Len(deliveryRequests) |->
     IF deliveryRequests[k].id = requestId
     THEN [deliveryRequests[k] EXCEPT !.deliveryPersonId = Some(deliveryPersonId),
                                      !.status = "accepted",
                                      !.acceptedAt = Some(now)]
     ELSE deliveryRequests[k]]

\* updateDeliveryStatus: the stored requests after the call
updateDeliveryStatus(deliveryRequests, requestId, status, now) ==
  [k \in 1..Len(deliveryRequests) |->
     IF deliveryRequests[k].id = requestId
     THEN [deliveryRequests[k] EXCEPT
             !.status = status,
             !.deliveredAt = IF status = "delivered" THEN Some(now) ELSE @]
     ELSE deliveryRequests[k]]

(***************************************************************************)
(* The storage of canteens and stalls.  A table is the sequence of its     *)
(* rows in insertion order; a row keeps the fields the storage computes    *)
(* with: the id, the canteen of a stall, the stall count of a canteen, the *)
(* rating and the review count.                                            *)
(***************************************************************************)
HasRow(rows, id) == \E i \in 1..Len(rows) : rows[i].id = id

RowOf(rows, id) == rows[CHOOSE i \in 1..Len(rows) : rows[i].id = id]

\* the row createCanteen stores
CanteenRow(id) == [id |-> id, totalStalls |-> 0]

\* the row createStall stores
StallRow(id, canteenId) ==
  [id |-> id, canteenId |-> canteenId, rating |-> Some(StrZero), reviewCount |-> 0]

\* totalStalls of the canteen of that id moved by delta, if the canteen is
\* stored
AddToTotalStalls(canteens, canteenId, delta) ==
  [i \in 1..Len(canteens) |->
     IF canteens[i].id = canteenId
     THEN [canteens[i] EXCEPT !.totalStalls = @ + delta]
     ELSE canteens[i]]

WithoutRow(rows, id) == SelectSeq(rows, LAMBDA r : r.id # id)

WithoutStallsOf(stalls, canteenId) ==
  SelectSeq(stalls, LAMBDA r : r.canteenId # canteenId)

\* MemStorage.createCanteen
MemCreateCanteen(canteens, id) == Append(canteens, CanteenRow(id))

\* MemStorage.createStall: the stall is stored, and counted if its canteen is
\* stored
MemCreateStall(stalls, canteens, id, canteenId) ==
  [stalls |-> Append(stalls, StallRow(id, canteenId)),
   canteens |-> AddToTotalStalls(canteens, canteenId, 1)]

\* variant of MemDeleteStall that leaves the count of the canteen as it is
MemDeleteStall_CountKept(stalls, canteens, id) ==
  [stalls |-> WithoutRow(stalls, id), canteens |-> canteens]

\* MemStorage.deleteStall
MemDeleteStall(stalls, canteens, id) ==
  IF HasRow(stalls, id)
  THEN [stalls |-> WithoutRow(stalls, id),
        canteens |-> AddToTotalStalls(canteens, RowOf(stalls, id).canteenId, -1)]
  ELSE [stalls |-> stalls, canteens |-> canteens]

\* MemStorage.deleteCanteen
MemDeleteCanteen(stalls, canteens, id) ==
  [stalls |-> WithoutStallsOf(stalls, id), canteens |-> WithoutRow(canteens, id)]

\* seedInitialData, in small: SeedCanteens canteens (5 in the source) of
\* 1..MaxSeedStalls stalls each (3 to 5 in the source); canteen k has the id
\* k, its stalls have ids of their own, and the seeded rating and review count
\* are one of the values the source draws
SeedCanteens == 2

MaxSeedStalls == 2

StrSeedRating == <<"4",".","2","0">>

SeedReviewCount == 50

SeedStallCounts == [1..SeedCanteens -> 1..MaxSeedStalls]

SeedStallId(k, j) == SeedCanteens + (k - 1) * MaxSeedStalls + j

\* the first id no seeded row has
FirstFreeId == SeedCanteens * (MaxSeedStalls + 1) + 1

SeededCanteens(counts) ==
  [k \in 1..SeedCanteens |-> [id |-> k, totalStalls |-> counts[k]]]

RECURSIVE SeededStallsFrom(_, _)
SeededStallsFrom(k, counts) ==
  IF k > SeedCanteens THEN <<>>
  ELSE [j \in 1..counts[k] |->
          [id |-> SeedStallId(k, j), canteenId |-> k,
           rating |-> Some(StrSeedRating), reviewCount |-> SeedReviewCount]]
       \o SeededStallsFrom(k + 1, counts)

SeededStalls(counts) == SeededStallsFrom(1, counts)

\* most rows created in a run
MaxCreated == 2

(***************************************************************************)
(* The storage of ratings: createRating and updateEntityRating             *)
(***************************************************************************)
\* the row createRating stores
RatingRow(id, entityType, entityId, rating) ==
  [id |-> id, entityType |-> entityType, entityId |-> entityId, rating |-> rating]

getRatingsByEntity(ratings, entityType, entityId) ==
  SelectSeq(ratings, LAMBDA r : r.entityType = entityType /\ r.entityId = entityId)

\* entityRatings.reduce((sum, r) => sum + r.rating, 0)
RECURSIVE SumOfRatings(_)
SumOfRatings(entityRatings) ==
  IF entityRatings = <<>> THEN 0
  ELSE Head(entityRatings).rating + SumOfRatings(Tail(entityRatings))

\* avgRating of a list that is not empty
avgRating(entityRatings) == Num(SumOfRatings(entityRatings), Len(entityRatings))

\* the row of that id with a new rating and review count
WithRating(rows, id, rating, reviewCount) ==
  [i \in 1..Len(rows) |->
     IF rows[i].id = id
     THEN [rows[i] EXCEPT !.rating = Some(rating), !.reviewCount = reviewCount]
     ELSE rows[i]]

\* the branch on entityType: a stall, a vendor, or nothing
StoreEntityRating(stalls, vendors, entityType, entityId, rating, reviewCount) ==
  [stalls |-> IF entityType = "stall"
              THEN WithRating(stalls, entityId, rating, reviewCount) ELSE stalls,
   vendors |-> IF entityType = "vendor"
               THEN WithRating(vendors, entityId, rating, reviewCount) ELSE vendors]

\* MemStorage.updateEntityRating
MemUpdateEntityRating(stalls, vendors, ratings, entityType, entityId) ==
  LET entityRatings == getRatingsByEntity(ratings, entityType, entityId)
  IN  IF Len(entityRatings) = 0 THEN [stalls |-> stalls, vendors |-> vendors]
      ELSE StoreEntityRating(stalls, vendors, entityType, entityId,
                             toFixed2(avgRating(entityRatings)), Len(entityRatings))

\* the cast ::numeric(3,2) of a number that is not negative: three digits,
\* two of them decimals, so the rounded value has to be below 10
FitsNumeric(x) == (200 * x.n + x.d) \div (2 * x.d) < 1000

\* the update statement of DbStorage.updateEntityRating; a value that does
\* not fit numeric(3,2) makes the statement fail and nothing is updated
DbUpdateRatingStatement(stalls, vendors, entityType, entityId, avg, reviewCount) ==
  IF FitsNumeric(avg)
  THEN StoreEntityRating(stalls, vendors, entityType, entityId, toFixed2(avg),
                         reviewCount)
  ELSE [stalls |-> stalls, vendors |-> vendors]

\* DbStorage.updateEntityRating, run without another call in between
DbUpdateEntityRating(stalls, vendors, ratings, entityType, entityId) ==
  LET entityRatings == getRatingsByEntity(ratings, entityType, entityId)
  IN  IF Len(entityRatings) = 0 THEN [stalls |-> stalls, vendors |-> vendors]
      ELSE DbUpdateRatingStatement(stalls, vendors, entityType, entityId,
                                   avgRating(entityRatings), Len(entityRatings))

\* the seeded vendor: a rating and a review count of the seeded ranges
SeededVendors == <<[id |-> 1, rating |-> Some(StrSeedRating), reviewCount |-> SeedReviewCount]>>

\* the entities a client rates: the two seeded stalls, the seeded vendor, a
\* stall that is not stored and an entity type that is neither
RatedEntities ==
  {<<"stall", SeedStallId(1, 1)>>, <<"stall", SeedStallId(2, 1)>>, <<"vendor", 1>>,
   <<"stall", 0>>, <<"canteen", 1>>}

\* the rating column is an integer; the schema validates nothing else
RatingValues == {1, 2, 10}

\* most ratings stored in a run
MaxRatings == 3

\* a createRating call of DbStorage in flight: the entity, the ratings it has
\* read and the statement it issues next
RatingTask(entity, entityRatings, pc) ==
  [op |-> "createRating", entity |-> entity, entityRatings |-> entityRatings, pc |-> pc]

\* most storage calls started in a run
MaxTasks == 2

\* a DbStorage call in flight: the method, its argument, the row it has read
\* and the statement it issues next
Task(op, id, stall, pc) == [op |-> op, id |-> id, stall |-> stall, pc |-> pc]

\* the task at position t moved to its next statement
TaskAt(tasks, t, pc) == [tasks EXCEPT ![t].pc = pc]

(***************************************************************************)
(* State: the arguments of one call and what it returned; the storage in   *)
(* use, the server time, the stored delivery requests, the last request    *)
(* body and the answer to it                                               *)
(***************************************************************************)
VARIABLES user, preferences, userBlock, stalls, canteens, blocks,
          filteredStalls, scoredStalls, result, pc,
          storage, users, now, deliveryRequests, req, res,
          vendors, ratings, nextId, tasks

vars ==
  <<user, preferences, userBlock, stalls, canteens, blocks,
    filteredStalls, scoredStalls, result, pc,
    storage, users, now, deliveryRequests, req, res,
    vendors, ratings, nextId, tasks>>

\* the variables of the delivery route
deliveryVars == <<storage, users, now, deliveryRequests, req, res>>

\* the stored vendors and ratings, the next fresh id and the storage calls
\* in flight: the variables of the storage, beside stalls and canteens
storeVars == <<vendors, ratings, nextId, tasks>>

\* no vendor, no rating, no storage call in flight
StoreUnused ==
  /\ vendors = <<>>
  /\ ratings = <<>>
  /\ nextId = 1
  /\ tasks = <<>>

Init ==
  /\ preferences \in PreferenceInputs
  /\ userBlock \in UserBlockInputs
  /\ user = [id |-> "u1",
             currentBlockId |-> IF IsSome(userBlock) THEN Some(Val(userBlock).id)
                                ELSE None]
  /\ stalls \in StallSeqs
  /\ canteens = Canteens
  /\ blocks = Blocks
  /\ filteredStalls = <<>>
  /\ scoredStalls = <<>>
  /\ result = <<>>
  /\ pc = "call"
  /\ storage = "MemStorage"
  /\ users = <<DemoUser>>
  /\ now = [utcHours |-> 0, utcMinutes |-> 0]
  /\ deliveryRequests = <<>>
  /\ req = None
  /\ res = None
  /\ StoreUnused

\* One call of calculateRecommendations: every argument is read, none is
\* written.  filteredStalls and scoredStalls are the locals of that name as
\* they stand when the call returns, result is the value returned.
CalculateRecommendations ==
  /\ pc = "call"
  /\ filteredStalls' =
       HardFilter(StallsWithDistance(userBlock, stalls, canteens, blocks), preferences)
  /\ scoredStalls' = ScoreAll(filteredStalls', preferences, userBlock)
  /\ result' = Rank(scoredStalls')
  /\ stalls' = StallsAfterCall(stalls)
  /\ pc' = "returned"
  /\ UNCHANGED <<user, preferences, userBlock, canteens, blocks>>
  /\ UNCHANGED deliveryVars
  /\ UNCHANGED storeVars

Next == CalculateRecommendations

Spec == Init /\ [][Next]_vars

(***************************************************************************)
(* The delivery route: requests arrive at a server whose storage holds the *)
(* campus blocks, one stall and, in a database, possibly no demo user      *)
(***************************************************************************)
\* the server as it starts serving, at one of the given times
ServerStarted(times) ==
  /\ storage \in StorageKinds
  /\ users \in (IF storage = "MemStorage" THEN {<<DemoUser>>}
                ELSE {<<>>, <<DemoUser>>})
  /\ now \in times
  /\ deliveryRequests = <<>>
  /\ req = None
  /\ res = None
  /\ user = [id |-> DemoUser.id, currentBlockId |-> None]
  /\ preferences = None
  /\ userBlock = None
  /\ stalls = DeliveryStalls
  /\ canteens = Canteens
  /\ blocks = Blocks
  /\ filteredStalls = <<>>
  /\ scoredStalls = <<>>
  /\ result = <<>>
  /\ pc = "serving"
  /\ StoreUnused

InitDelivery == ServerStarted(ServerTimes)

\* One POST /api/delivery-requests, from the lookup of the demo user to the
\* answer: a request is stored only when every check has passed.  A run
\* stores MaxDeliveryRequests requests at most.
PostDeliveryRequestFrom(bodies) ==
  /\ pc = "serving"
  /\ \E body \in bodies :
       LET out == HandlePost(body, storage, users, stalls, blocks, deliveryRequests, now)
       IN  /\ out.status = 200 => Len(deliveryRequests) < MaxDeliveryRequests
           /\ req' = Some(body)
           /\ res' = Some(out)
           /\ deliveryRequests' =
                IF out.status = 200 THEN Append(deliveryRequests, Val(out.created))
                ELSE deliveryRequests
  /\ UNCHANGED <<storage, users, now>>
  /\ UNCHANGED <<user, preferences, userBlock, stalls, canteens, blocks,
                 filteredStalls, scoredStalls, result, pc>>
  /\ UNCHANGED storeVars

PostDeliveryRequest == PostDeliveryRequestFrom(RequestBodies)

NextDelivery == PostDeliveryRequest

SpecDelivery == InitDelivery /\ [][NextDelivery]_vars

(***************************************************************************)
(* The delivery requests over their life: the same server at a peak and at *)
(* an off-peak time                                                        *)
(***************************************************************************)
\* 08:00 and 12:00 in Singapore
OrderTimes == {[utcHours |-> 0, utcMinutes |-> 0], [utcHours |-> 4, utcMinutes |-> 0]}

InitOrders == ServerStarted(OrderTimes)

NextOrders == PostDeliveryRequest

SpecOrders == InitOrders /\ [][NextOrders]_vars

(***************************************************************************)
(* The routes that follow a delivery request                               *)
(***************************************************************************)
\* POST /api/users/register-delivery-person
RegisterDeliveryPerson ==
  /\ pc = "serving"
  /\ \E body \in RegisterBodies :
       LET u == getUserByUsername(users, "demo_user")
       IN  /\ req' = Some(body)
           /\ IF IsNone(u)
              THEN /\ res' = Some(Answer(404, "User not found", None))
                   /\ users' = users
              ELSE /\ res' = Some(Answer(200, "", None))
                   /\ users' =
                        [i \in 1..Len(users) |->
                           IF users[i].id = Val(u).id
                           THEN registerAsDeliveryPerson(storage, users[i],
                                  body.phoneNumber, body.currentBlockId)
                           ELSE users[i]]
  /\ UNCHANGED <<storage, now, deliveryRequests>>
  /\ UNCHANGED <<user, preferences, userBlock, stalls, canteens, blocks,
                 filteredStalls, scoredStalls, result, pc>>
  /\ UNCHANGED storeVars

\* PATCH /api/delivery-requests/:id/accept
AcceptDeliveryRequest ==
  /\ pc = "serving"
  /\ \E id \in RequestIds :
       LET u == getUserByUsername(users, "demo_user")
           after == acceptDeliveryRequest(deliveryRequests, id, Val(u).id, now)
       IN  /\ req' = Some([id |-> id])
           /\ IF IsNone(u)
              THEN /\ res' = Some(Answer(404, "User not found", None))
                   /\ deliveryRequests' = deliveryRequests
              ELSE IF ~Val(u).isDeliveryPerson
              THEN /\ res' = Some(Answer(403, "User is not a delivery person", None))
                   /\ deliveryRequests' = deliveryRequests
              ELSE IF IsNone(getDeliveryRequest(deliveryRequests, id))
              THEN /\ res' = Some(Answer(404, "Delivery request not found", None))
                   /\ deliveryRequests' = deliveryRequests
              ELSE /\ res' = Some(Answer(200, "", getDeliveryRequest(after, id)))
                   /\ deliveryRequests' = after
  /\ UNCHANGED <<storage, users, now>>
  /\ UNCHANGED <<user, preferences, userBlock, stalls, canteens, blocks,
                 filteredStalls, scoredStalls, result, pc>>
  /\ UNCHANGED storeVars

\* PATCH /api/delivery-requests/:id/status: the status of the body goes to
\* the storage as it comes; an unknown id is answered with an empty 200
UpdateDeliveryStatus ==
  /\ pc = "serving"
  /\ \E id \in RequestIds, status \in StatusInputs :
       LET after == updateDeliveryStatus(deliveryRequests, id, status, now)
       IN  /\ req' = Some([id |-> id, status |-> status])
           /\ res' = Some(Answer(200, "", getDeliveryRequest(after, id)))
           /\ deliveryRequests' = after
  /\ UNCHANGED <<storage, users, now>>
  /\ UNCHANGED <<user, preferences, userBlock, stalls, canteens, blocks,
                 filteredStalls, scoredStalls, result, pc>>
  /\ UNCHANGED storeVars

CreateDeliveryRequest == PostDeliveryRequestFrom(StatusBodies)

InitStatus == ServerStarted(OrderTimes)

NextStatus ==
  \/ CreateDeliveryRequest
  \/ RegisterDeliveryPerson
  \/ AcceptDeliveryRequest
  \/ UpdateDeliveryStatus

SpecStatus == InitStatus /\ [][NextStatus]_vars

(***************************************************************************)
(* MemStorage: canteens and stalls.  Every method runs to its end before   *)
(* another request is served.                                              *)
(***************************************************************************)
\* the recommendation engine and the delivery routes at rest
OtherPartsAtRest ==
  /\ user = [id |-> DemoUser.id, currentBlockId |-> None]
  /\ preferences = None
  /\ userBlock = None
  /\ blocks = Blocks
  /\ filteredStalls = <<>>
  /\ scoredStalls = <<>>
  /\ result = <<>>
  /\ pc = "serving"
  /\ users = <<DemoUser>>
  /\ now = [utcHours |-> 0, utcMinutes |-> 0]
  /\ deliveryRequests = <<>>
  /\ req = None
  /\ res = None

otherVars ==
  <<user, preferences, userBlock, blocks, filteredStalls, scoredStalls, result,
    pc, users, now, deliveryRequests, req, res, storage>>

\* the ids a client can name: every id given out so far, and 0, which no row
\* has
KnownIds == 0..(nextId - 1)

InitMemStalls ==
  /\ OtherPartsAtRest
  /\ storage = "MemStorage"
  /\ \E counts \in SeedStallCounts :
       /\ canteens = SeededCanteens(counts)
       /\ stalls = SeededStalls(counts)
  /\ vendors = <<>>
  /\ ratings = <<>>
  /\ nextId = FirstFreeId
  /\ tasks = <<>>

CreateCanteen ==
  /\ nextId < FirstFreeId + MaxCreated
  /\ canteens' = MemCreateCanteen(canteens, nextId)
  /\ nextId' = nextId + 1
  /\ UNCHANGED <<stalls, vendors, ratings, tasks>>
  /\ UNCHANGED otherVars

CreateStall ==
  /\ nextId < FirstFreeId + MaxCreated
  /\ \E canteenId \in KnownIds :
       LET after == MemCreateStall(stalls, canteens, nextId, canteenId)
       IN  /\ stalls' = after.stalls
           /\ canteens' = after.canteens
  /\ nextId' = nextId + 1
  /\ UNCHANGED <<vendors, ratings, tasks>>
  /\ UNCHANGED otherVars

DeleteStall ==
  /\ \E id \in KnownIds :
       LET after == MemDeleteStall(stalls, canteens, id)
       IN  /\ stalls' = after.stalls
           /\ canteens' = after.canteens
  /\ UNCHANGED <<vendors, ratings, nextId, tasks>>
  /\ UNCHANGED otherVars

DeleteCanteen ==
  /\ \E id \in KnownIds :
       LET after == MemDeleteCanteen(stalls, canteens, id)
       IN  /\ stalls' = after.stalls
           /\ canteens' = after.canteens
  /\ UNCHANGED <<vendors, ratings, nextId, tasks>>
  /\ UNCHANGED otherVars

NextMemStalls == CreateCanteen \/ CreateStall \/ DeleteStall \/ DeleteCanteen

SpecMemStalls == InitMemStalls /\ [][NextMemStalls]_vars

(***************************************************************************)
(* DbStorage: canteens and stalls.  A method is a sequence of statements,  *)
(* each awaited: a statement is atomic, and the statements of requests     *)
(* served at the same time interleave.  An action is one statement; the    *)
(* first statement of a method starts the call.                            *)
(***************************************************************************)
InitDbStalls ==
  /\ OtherPartsAtRest
  /\ storage = "DbStorage"
  /\ \E counts \in SeedStallCounts :
       /\ canteens = SeededCanteens(counts)
       /\ stalls = SeededStalls(counts)
  /\ vendors = <<>>
  /\ ratings = <<>>
  /\ nextId = FirstFreeId
  /\ tasks = <<>>

\* createStall, first statement: insert into stalls
DbCreateStallInsert ==
  /\ Len(tasks) < MaxTasks
  /\ nextId < FirstFreeId + MaxCreated
  /\ \E canteenId \in KnownIds :
       /\ stalls' = Append(stalls, StallRow(nextId, canteenId))
       /\ tasks' = Append(tasks, Task("createStall", canteenId, None, "update"))
  /\ nextId' = nextId + 1
  /\ UNCHANGED <<canteens, vendors, ratings>>
  /\ UNCHANGED otherVars

\* createStall, second statement: update canteens set totalStalls + 1
DbCreateStallUpdate ==
  /\ \E t \in 1..Len(tasks) :
       /\ tasks[t].op = "createStall"
       /\ tasks[t].pc = "update"
       /\ canteens' = AddToTotalStalls(canteens, tasks[t].id, 1)
       /\ tasks' = TaskAt(tasks, t, "done")
  /\ UNCHANGED <<stalls, vendors, ratings, nextId>>
  /\ UNCHANGED otherVars

\* deleteStall, first statement: getStall(id); the call ends here when no
\* stall is found
DbDeleteStallSelect ==
  /\ Len(tasks) < MaxTasks
  /\ \E id \in KnownIds :
       tasks' = Append(tasks,
                  IF HasRow(stalls, id)
                  THEN Task("deleteStall", id, Some(RowOf(stalls, id)), "delete")
                  ELSE Task("deleteStall", id, None, "done"))
  /\ UNCHANGED <<stalls, canteens, vendors, ratings, nextId>>
  /\ UNCHANGED otherVars

\* deleteStall, second statement: delete from stalls
DbDeleteStallDelete ==
  /\ \E t \in 1..Len(tasks) :
       /\ tasks[t].op = "deleteStall"
       /\ tasks[t].pc = "delete"
       /\ stalls' = WithoutRow(stalls, tasks[t].id)
       /\ tasks' = TaskAt(tasks, t, "update")
  /\ UNCHANGED <<canteens, vendors, ratings, nextId>>
  /\ UNCHANGED otherVars

\* deleteStall, third statement: update canteens set totalStalls - 1, for
\* the canteen of the stall that was read
DbDeleteStallUpdate ==
  /\ \E t \in 1..Len(tasks) :
       /\ tasks[t].op = "deleteStall"
       /\ tasks[t].pc = "update"
       /\ canteens' = AddToTotalStalls(canteens, Val(tasks[t].stall).canteenId, -1)
       /\ tasks' = TaskAt(tasks, t, "done")
  /\ UNCHANGED <<stalls, vendors, ratings, nextId>>
  /\ UNCHANGED otherVars

\* deleteCanteen, first statement: delete the stalls of the canteen
DbDeleteCanteenStalls ==
  /\ Len(tasks) < MaxTasks
  /\ \E id \in KnownIds :
       /\ stalls' = WithoutStallsOf(stalls, id)
       /\ tasks' = Append(tasks, Task("deleteCanteen", id, None, "delete"))
  /\ UNCHANGED <<canteens, vendors, ratings, nextId>>
  /\ UNCHANGED otherVars

\* deleteCanteen, second statement: delete the canteen
DbDeleteCanteenRow ==
  /\ \E t \in 1..Len(tasks) :
       /\ tasks[t].op = "deleteCanteen"
       /\ tasks[t].pc = "delete"
       /\ canteens' = WithoutRow(canteens, tasks[t].id)
       /\ tasks' = TaskAt(tasks, t, "done")
  /\ UNCHANGED <<stalls, vendors, ratings, nextId>>
  /\ UNCHANGED otherVars

NextDbStalls ==
  \/ DbCreateStallInsert
  \/ DbCreateStallUpdate
  \/ DbDeleteStallSelect
  \/ DbDeleteStallDelete
  \/ DbDeleteStallUpdate
  \/ DbDeleteCanteenStalls
  \/ DbDeleteCanteenRow

SpecDbStalls == InitDbStalls /\ [][NextDbStalls]_vars

(***************************************************************************)
(* Ratings, one call after the other, in either storage                    *)
(***************************************************************************)
\* one stall in each seeded canteen, one vendor, no rating
RatingsSeeded ==
  /\ OtherPartsAtRest
  /\ canteens = SeededCanteens([k \in 1..SeedCanteens |-> 1])
  /\ stalls = SeededStalls([k \in 1..SeedCanteens |-> 1])
  /\ vendors = SeededVendors
  /\ ratings = <<>>
  /\ nextId = FirstFreeId
  /\ tasks = <<>>

InitRatings == RatingsSeeded /\ storage \in StorageKinds

\* POST /api/ratings served to its end: the rating is stored, then the
\* entity is updated from all its stored ratings
CreateRating ==
  /\ Len(ratings) < MaxRatings
  /\ \E entity \in RatedEntities, rating \in RatingValues :
       LET stored == Append(ratings, RatingRow(nextId, entity[1], entity[2], rating))
           after == IF storage = "MemStorage"
                    THEN MemUpdateEntityRating(stalls, vendors, stored, entity[1], entity[2])
                    ELSE DbUpdateEntityRating(stalls, vendors, stored, entity[1], entity[2])
       IN  /\ ratings' = stored
           /\ stalls' = after.stalls
           /\ vendors' = after.vendors
  /\ nextId' = nextId + 1
  /\ UNCHANGED <<canteens, tasks>>
  /\ UNCHANGED otherVars

NextRatings == CreateRating

SpecRatings == InitRatings /\ [][NextRatings]_vars

(***************************************************************************)
(* DbStorage: createRating calls served at the same time.  The insert, the *)
(* select of the entity's ratings and the update are three statements.     *)
(***************************************************************************)
\* ratings of the documented range 1..5
RaceRatingValues == {1, 5}

InitDbRatings == RatingsSeeded /\ storage = "DbStorage"

\* createRating, first statement: insert into ratings
DbCreateRatingInsert ==
  /\ Len(tasks) < MaxTasks
  /\ \E entity \in RatedEntities, rating \in RaceRatingValues :
       /\ ratings' = Append(ratings, RatingRow(nextId, entity[1], entity[2], rating))
       /\ tasks' = Append(tasks, RatingTask(entity, <<>>, "select"))
  /\ nextId' = nextId + 1
  /\ UNCHANGED <<stalls, canteens, vendors>>
  /\ UNCHANGED otherVars

\* updateEntityRating, first statement: getRatingsByEntity
DbCreateRatingSelect ==
  /\ \E t \in 1..Len(tasks) :
       /\ tasks[t].pc = "select"
       /\ LET entityRatings ==
                getRatingsByEntity(ratings, tasks[t].entity[1], tasks[t].entity[2])
          IN  tasks' = [tasks EXCEPT
                          ![t].entityRatings = entityRatings,
                          ![t].pc = IF /\ Len(entityRatings) > 0
                                       /\ tasks[t].entity[1] \in {"stall", "vendor"}
                                    THEN "update" ELSE "done"]
  /\ UNCHANGED <<stalls, canteens, vendors, ratings, nextId>>
  /\ UNCHANGED otherVars

\* updateEntityRating, second statement: update stalls or vendors with the
\* mean and the number of the ratings that were read
DbCreateRatingUpdate ==
  /\ \E t \in 1..Len(tasks) :
       /\ tasks[t].pc = "update"
       /\ LET after == DbUpdateRatingStatement(stalls, vendors, tasks[t].entity[1],
                          tasks[t].entity[2], avgRating(tasks[t].entityRatings),
                          Len(tasks[t].entityRatings))
          IN  /\ stalls' = after.stalls
              /\ vendors' = after.vendors
       /\ tasks' = TaskAt(tasks, t, "done")
  /\ UNCHANGED <<canteens, ratings, nextId>>
  /\ UNCHANGED otherVars

NextDbRatings == DbCreateRatingInsert \/ DbCreateRatingSelect \/ DbCreateRatingUpdate

SpecDbRatings == InitDbRatings /\ [][NextDbRatings]_vars

(***************************************************************************)
(* Vocabulary of the properties                                            *)
(***************************************************************************)
Returned == pc = "returned"

\* the limits the call works with
MaxQueueTimeUsed == EffMaxQueueTime(preferences)

MaxWalkingDistanceUsed == Int2Num(EffMaxWalkingDistance(preferences))

ResultIds == {result[k].stall.id : k \in 1..Len(result)}

FilteredIds == {filteredStalls[k].stall.id : k \in 1..Len(filteredStalls)}

\* the distance the call computes for the stall at position i of the input
DistanceOf(i) == StallDistance(stalls[i], userBlock, canteens, blocks)

\* no preferred cuisine is registered: no record, or a record whose list is
\* null or empty
NoPreferredCuisine ==
  \/ preferences = None
  \/ Val(preferences).cuisineTypes \in {None, Some(<<>>)}

InUnitInterval(x) == NumGe(x, Zero) /\ NumGe(One, x)

(***************************************************************************)
(* C1: no stall whose estimatedWaitTime is greater than the max queue time *)
(* of the call is returned: every returned entry waits at most that long,  *)
(* and every input stall that waits longer is absent from the result.      *)
(***************************************************************************)
C1_QueueTimeHardFilter ==
  Returned =>
    /\ \A k \in 1..Len(result) :
         result[k].stall.estimatedWaitTime <= MaxQueueTimeUsed
    /\ \A i \in 1..Len(stalls) :
         stalls[i].estimatedWaitTime > MaxQueueTimeUsed => stalls[i].id \notin ResultIds

\* a call that drops a stall for its wait and returns another one
C1_Witness ==
  /\ Returned
  /\ Len(result) >= 1
  /\ \E i \in 1..Len(stalls) : stalls[i].estimatedWaitTime > MaxQueueTimeUsed

(***************************************************************************)
(* C2: no stall whose distance is defined and greater than the max walking *)
(* distance is returned: every returned entry with a defined distance is   *)
(* within the limit, and every input stall farther away is absent.         *)
(***************************************************************************)
C2_DistanceHardFilter ==
  Returned =>
    /\ \A k \in 1..Len(result) :
         IsSome(result[k].distance) =>
           NumGe(MaxWalkingDistanceUsed, Val(result[k].distance))
    /\ \A i \in 1..Len(stalls) :
         (IsSome(DistanceOf(i)) /\ NumGt(Val(DistanceOf(i)), MaxWalkingDistanceUsed))
           => stalls[i].id \notin ResultIds

\* a call with a stall 300 m away under a limit of 200 m, its wait acceptable
C2_Witness ==
  /\ Returned
  /\ \E i \in 1..Len(stalls) :
       /\ DistanceOf(i) = Some(Int2Num(300))
       /\ MaxWalkingDistanceUsed = Int2Num(200)
       /\ stalls[i].estimatedWaitTime <= MaxQueueTimeUsed
       /\ stalls[i].id \notin ResultIds

(***************************************************************************)
(* C3: a stall whose distance is undefined is never removed by the         *)
(* distance hard filter (it passes the hard filters whenever its wait is   *)
(* acceptable), and a returned entry with undefined distance has           *)
(* proximityScore exactly 0.5.                                             *)
(***************************************************************************)
C3_UndefinedDistance ==
  Returned =>
    /\ \A i \in 1..Len(stalls) :
         (IsNone(DistanceOf(i)) /\ stalls[i].estimatedWaitTime <= MaxQueueTimeUsed)
           => stalls[i].id \in FilteredIds
    /\ \A k \in 1..Len(result) :
         IsNone(result[k].distance) => result[k].breakdown.proximityScore = Half

\* the user is located, yet a stall without a distance is returned
C3_Witness ==
  /\ Returned
  /\ IsSome(userBlock)
  /\ \E k \in 1..Len(result) :
       /\ IsNone(result[k].distance)
       /\ result[k].breakdown.proximityScore = Half

(***************************************************************************)
(* C4: the result is sorted non-increasing by score.                       *)
(***************************************************************************)
C4_SortedByScore ==
  Returned =>
    \A i \in 1..Len(result) : \A j \in 1..Len(result) :
      i < j => NumGe(result[i].score, result[j].score)

\* the sort moved a later stall in front of an earlier one
C4_Witness ==
  /\ Returned
  /\ \E i \in 1..Len(result) : \E j \in 1..Len(result) :
       /\ i < j
       /\ result[i].stall.id > result[j].stall.id
       /\ NumGt(result[i].score, result[j].score)

(***************************************************************************)
(* C5: every returned entry has score >= 0 and score > 0.1, and a stall    *)
(* that passed the hard filters with a score <= 0.1 (0.1 included) is not  *)
(* returned.                                                               *)
(***************************************************************************)
C5_SoftFilter ==
  Returned =>
    /\ \A k \in 1..Len(result) :
         NumGe(result[k].score, Zero) /\ NumGt(result[k].score, Num(1, 10))
    /\ \A j \in 1..Len(scoredStalls) :
         NumGe(Num(1, 10), scoredStalls[j].score)
           => scoredStalls[j].stall.id \notin ResultIds

\* a stall scored exactly 0.1 and was left out
C5_Witness ==
  /\ Returned
  /\ \E j \in 1..Len(scoredStalls) :
       /\ scoredStalls[j].score = Num(1, 10)
       /\ scoredStalls[j].stall.id \notin ResultIds

(***************************************************************************)
(* C6: when no preferences record is supplied or its preferred-cuisine     *)
(* list is empty, every returned entry has preferenceScore exactly 0.5,    *)
(* whatever the cuisine and the dietary restrictions.                      *)
(***************************************************************************)
C6_NeutralPreference ==
  (Returned /\ NoPreferredCuisine) =>
    \A k \in 1..Len(result) : result[k].breakdown.preferenceScore = Half

\* a record without cuisines but with a halal restriction, and a returned
\* stall whose cuisine that restriction would rule out
C6_Witness ==
  /\ Returned
  /\ IsSome(preferences)
  /\ NoPreferredCuisine
  /\ Val(preferences).dietaryRestrictions = Some(<<StrHalal>>)
  /\ \E k \in 1..Len(result) :
       /\ result[k].stall.cuisineType = StrChinese
       /\ result[k].breakdown.preferenceScore = Half

(***************************************************************************)
(* C7: every returned entry carries the same confidence label: low without *)
(* a user block, else medium without a preferred cuisine, else high.       *)
(***************************************************************************)
C7_Confidence ==
  Returned =>
    \A k \in 1..Len(result) :
      result[k].confidence =
        IF userBlock = None THEN "low"
        ELSE IF NoPreferredCuisine THEN "medium"
        ELSE "high"

\* two entries labelled medium because the supplied record lists no cuisine
C7_Witness ==
  /\ Returned
  /\ Len(result) >= 2
  /\ userBlock # None
  /\ preferences # None
  /\ NoPreferredCuisine
  /\ \A k \in 1..Len(result) : result[k].confidence = "medium"

(***************************************************************************)
(* C8: the score of a returned entry is 0.35, 0.25, 0.20 and 0.20 times    *)
(* its own preference, proximity, queue and rating sub-scores, and the     *)
(* four weights sum to 1.                                                  *)
(***************************************************************************)
C8_WeightedSum ==
  /\ NumAdd(NumAdd(WEIGHTS.PREFERENCE, WEIGHTS.PROXIMITY),
            NumAdd(WEIGHTS.QUEUE, WEIGHTS.RATING)) = One
  /\ Returned =>
       \A k \in 1..Len(result) :
         LET b == result[k].breakdown
         IN  NumEq(NumMul(Int2Num(100), result[k].score),
                   NumAdd(NumAdd(NumMul(Int2Num(35), b.preferenceScore),
                                 NumMul(Int2Num(25), b.proximityScore)),
                          NumAdd(NumMul(Int2Num(20), b.queueScore),
                                 NumMul(Int2Num(20), b.ratingScore))))

\* an entry whose four sub-scores are pairwise different
C8_Witness ==
  /\ Returned
  /\ \E k \in 1..Len(result) :
       LET b == result[k].breakdown
       IN  Cardinality({b.preferenceScore, b.proximityScore,
                        b.queueScore, b.ratingScore}) = 4

(***************************************************************************)
(* C9: every returned entry carries a canteen, and it is the canteen the   *)
(* stall refers to.                                                        *)
(***************************************************************************)
C9_CanteenOfStall ==
  Returned =>
    \A k \in 1..Len(result) :
      /\ IsSome(result[k].canteen)
      /\ Val(result[k].canteen).id = result[k].stall.canteenId

(***************************************************************************)
(* C10: for a stall with estimatedWaitTime >= 0 and a rating that is       *)
(* absent or within 0..5, the four sub-scores and the score of its entry   *)
(* lie in [0,1], with a defined distance and with the 0.5 fallback.        *)
(***************************************************************************)
RatingAbsentOrInRange(stall) ==
  \/ ~Truthy(stall.rating)
  \/ /\ NumGe(parseFloat(Val(stall.rating)), Zero)
     /\ NumGe(Int2Num(5), parseFloat(Val(stall.rating)))

C10_Precondition(stall) ==
  stall.estimatedWaitTime >= 0 /\ RatingAbsentOrInRange(stall)

C10_ScoresInUnitInterval ==
  Returned =>
    \A k \in 1..Len(result) :
      C10_Precondition(result[k].stall) =>
        /\ InUnitInterval(result[k].breakdown.preferenceScore)
        /\ InUnitInterval(result[k].breakdown.proximityScore)
        /\ InUnitInterval(result[k].breakdown.queueScore)
        /\ InUnitInterval(result[k].breakdown.ratingScore)
        /\ InUnitInterval(result[k].score)

\* one call returns an entry with a distance and one with the fallback
C10_Witness ==
  /\ Returned
  /\ \E k \in 1..Len(result) :
       C10_Precondition(result[k].stall) /\ IsSome(result[k].distance)
  /\ \E k \in 1..Len(result) :
       C10_Precondition(result[k].stall) /\ IsNone(result[k].distance)

(***************************************************************************)
(* C11: the call leaves all of its inputs unchanged: across every step the *)
(* user, the preferences, the user block and the stalls, canteens and      *)
(* blocks sequences (elements, field values, element order) are the same   *)
(* after as before.                                                        *)
(***************************************************************************)
C11_InputsUnchanged ==
  [][/\ user' = user
     /\ preferences' = preferences
     /\ userBlock' = userBlock
     /\ stalls' = stalls
     /\ canteens' = canteens
     /\ blocks' = blocks]_vars

\* a call that returned the second input stall ahead of the first, the input
\* sequence still in its own order
C11_Witness ==
  /\ Returned
  /\ Len(result) = 2
  /\ result[1].stall = stalls[2]
  /\ result[2].stall = stalls[1]
  /\ stalls[1].id = 1

(***************************************************************************)
(* C12: the result holds exactly the input stalls that pass both hard      *)
(* filters and score above 0.1: one entry for each such position of the    *)
(* input, no stall that is not in the input, nothing cut off; and the      *)
(* value returned is a sequence, possibly empty.                           *)
(***************************************************************************)
\* the positions of the input whose stall passes both hard filters and
\* scores above 0.1
PassingPositions ==
  {i \in 1..Len(stalls) :
     LET e == [stall |-> stalls[i],
               canteen |-> FindCanteen(canteens, stalls[i].canteenId),
               distance |-> DistanceOf(i)]
         s == ScoreStall(e, EffCuisineTypes(preferences),
                         EffDietaryRestrictions(preferences),
                         EffMaxQueueTime(preferences),
                         EffMaxWalkingDistance(preferences),
                         Confidence(preferences, userBlock))
     IN  /\ e.stall.estimatedWaitTime <= MaxQueueTimeUsed
         /\ ~(IsSome(e.distance) /\ NumGt(Val(e.distance), MaxWalkingDistanceUsed))
         /\ NumGt(s.score, Num(1, 10))}

C12_ExactlyThePassingStalls ==
  Returned =>
    /\ DOMAIN result = 1..Len(result)
    /\ \A k \in 1..Len(result) :
         /\ result[k].stall.id \in 1..Len(stalls)
         /\ result[k].stall = stalls[result[k].stall.id]
    /\ LET passing == PassingPositions
       IN  ResultIds = passing /\ Len(result) = Cardinality(passing)

\* a call that returns both stalls of a two-stall input
C12_Witness ==
  /\ Returned
  /\ Len(stalls) = 2
  /\ Len(result) = 2
  /\ ResultIds = {1, 2}

(***************************************************************************)
(* C13: calculatePreferenceScore returns 0, 0.3 or 1.0: 0 when some        *)
(* restriction is 'vegetarian' (in any case) and the cuisine contains      *)
(* 'meat', or is 'halal' and the cuisine does not contain 'halal';         *)
(* otherwise 1.0 when the cuisine equals a preferred cuisine up to case;   *)
(* otherwise 0.3.  A conflict wins over a match.                           *)
(***************************************************************************)
\* the cuisine label of a stall conflicts with a restriction of the call
DietaryConflict(stall) ==
  LET cuisine == toLowerCase(stall.cuisineType)
      restrictions == EffDietaryRestrictions(preferences)
      Has(r) == \E k \in 1..Len(restrictions) : toLowerCase(restrictions[k]) = r
  IN  \/ Has(StrVegetarian) /\ includes(cuisine, StrMeat)
      \/ Has(StrHalal) /\ ~includes(cuisine, StrHalal)

\* the cuisine label of a stall equals a preferred cuisine up to case
CuisineMatch(stall) ==
  toLowerCase(stall.cuisineType) \in
    {toLowerCase(EffCuisineTypes(preferences)[k]) :
       k \in 1..Len(EffCuisineTypes(preferences))}

CarriesCoordinates(block) ==
  /\ IsSome(block)
  /\ IsSome(Val(block).latitude)
  /\ IsSome(Val(block).longitude)

\* the block associated with the canteen of a stall, if any
CanteenBlockOf(stall) ==
  IF IsSome(FindCanteen(canteens, stall.canteenId))
  THEN FindCanteenBlock(blocks, stall.canteenId)
  ELSE None

C14_DistanceDefinedIffCoordinates ==
  Returned =>
    \A i \in 1..Len(stalls) :
      IsSome(DistanceOf(i)) <=>
        (CarriesCoordinates(userBlock) /\ CarriesCoordinates(CanteenBlockOf(stalls[i])))

(***************************************************************************)
(* C15: the effective maxQueueTime and maxWalkingDistance are the values   *)
(* of the supplied preferences record for every supplied value, 0          *)
(* included, and are 30 and 1000 only without a record; the hard filters   *)
(* work with these values, so no returned stall waits longer or lies       *)
(* farther than the supplied limits.                                       *)
(***************************************************************************)
C15_SuppliedLimitsAreEffective ==
  Returned =>
    IF IsSome(preferences)
    THEN /\ MaxQueueTimeUsed = Val(preferences).maxQueueTime
         /\ MaxWalkingDistanceUsed = Int2Num(Val(preferences).maxWalkingDistance)
         /\ \A k \in 1..Len(result) :
              /\ result[k].stall.estimatedWaitTime <= Val(preferences).maxQueueTime
              /\ IsSome(result[k].distance) =>
                   NumGe(Int2Num(Val(preferences).maxWalkingDistance),
                         Val(result[k].distance))
    ELSE /\ MaxQueueTimeUsed = 30
         /\ MaxWalkingDistanceUsed = Int2Num(1000)

(***************************************************************************)
(* C16: the rating sub-score follows the fallback chain: no rating value   *)
(* gives 0.7 (the default text "3.5"), a rating text that is not a number  *)
(* gives 0.5, a rating text that parses to r gives min(r / 5, 1); a stored *)
(* "0" is a rating and gives 0, not 0.7.                                   *)
(***************************************************************************)
C16_RatingFallbackChain ==
  Returned =>
    \A k \in 1..Len(scoredStalls) :
      LET rating == scoredStalls[k].stall.rating
          sc == scoredStalls[k].breakdown.ratingScore
      IN  /\ IsNone(rating) => sc = Num(7, 10)
          /\ (IsSome(rating) /\ IsNaN(parseFloat(Val(rating)))) => sc = Half
          /\ (IsSome(rating) /\ ~IsNaN(parseFloat(Val(rating)))) =>
               sc = NumMin(NumDiv(parseFloat(Val(rating)), Int2Num(5)), One)
          /\ rating = Some(StrZero) => sc = Zero
          /\ rating = Some(StrNotANumber) => sc = Half
          /\ rating = Some(StrNegativeRating) => sc = Num(-13, 20)
          /\ rating = Some(StrHighRating) => sc = One

\* a stall rated "0" is scored, its ratingScore 0
C16_Witness ==
  /\ Returned
  /\ \E k \in 1..Len(scoredStalls) :
       /\ scoredStalls[k].stall.rating = Some(StrZero)
       /\ scoredStalls[k].breakdown.ratingScore = Zero

(***************************************************************************)
(* C17: entries of equal total score appear in the result in the relative  *)
(* order in which their stalls appear in the input stalls sequence.        *)
(***************************************************************************)
\* the position in the input of the stall of the k-th entry of the result
\* (a stall of the input carries its position as its id)
InputPosition(k) ==
  CHOOSE i \in 1..Len(stalls) : stalls[i] = result[k].stall /\ stalls[i].id = i

C17_StableForEqualScores ==
  Returned =>
    \A i \in 1..Len(result) : \A j \in 1..Len(result) :
      (i < j /\ NumEq(result[i].score, result[j].score))
        => InputPosition(i) < InputPosition(j)

\* two stalls of the same score are returned
C17_Witness ==
  /\ Returned
  /\ Len(result) = 2
  /\ NumEq(result[1].score, result[2].score)
  /\ InputPosition(1) = 1
  /\ InputPosition(2) = 2

(***************************************************************************)
(* C19: no stall whose computed distance from the user's block is greater  *)
(* than 500 m appears in the recommendations returned.                     *)
(***************************************************************************)
C19_NoStallBeyond500m ==
  Returned =>
    \A k \in 1..Len(result) :
      IsSome(result[k].distance) => ~NumGt(Val(result[k].distance), Int2Num(500))

(***************************************************************************)
(* C20: POST /api/delivery-requests stores a fee computed by the server,   *)
(* whatever fee or peak flag the client sent: every stored request carries *)
(* the fee 2.00 and isPeakHour true when it was created at a Singapore     *)
(* time (UTC+8) in [11:30, 13:30) or [17:30, 19:30), and the fee 1.50 and  *)
(* isPeakHour false when it was created at any other minute of the day.    *)
(***************************************************************************)
\* minute of the day in Singapore of a server time
SingaporeMinuteOfDay(t) == (t.utcHours * 60 + t.utcMinutes + 8 * 60) % (24 * 60)

\* the time lies in [11:30, 13:30) or in [17:30, 19:30), Singapore time
InPeakWindow(t) ==
  LET m == SingaporeMinuteOfDay(t)
  IN  \/ 11 * 60 + 30 <= m /\ m < 13 * 60 + 30
      \/ 17 * 60 + 30 <= m /\ m < 19 * 60 + 30

C20_ServerComputedFee ==
  \A k \in 1..Len(deliveryRequests) :
    LET r == deliveryRequests[k]
    IN  IF InPeakWindow(r.createdAt)
        THEN r.deliveryFee = Some(<<"2",".","0","0">>) /\ r.isPeakHour = Some(TRUE)
        ELSE r.deliveryFee = Some(<<"1",".","5","0">>) /\ r.isPeakHour = Some(FALSE)

(***************************************************************************)
(* C21: POST /api/delivery-requests answers 400 and creates no delivery    *)
(* request whenever the food total is not a number, is <= 0 or is > 1000,  *)
(* the stall id names no stored stall, the sanitized food-items text is    *)
(* empty, or a supplied delivery block id names no stored block; the       *)
(* stored delivery requests are then the same after the request as before. *)
(***************************************************************************)
\* the food total of a request body: the number read from totalAmount
FoodTotalOf(body) == parseFloat(OrElse(body.totalAmount, StrZero))

BadFoodTotal(body) ==
  \/ IsNaN(FoodTotalOf(body))
  \/ NumGe(Zero, FoodTotalOf(body))
  \/ NumGt(FoodTotalOf(body), Int2Num(1000))

UnknownStall(body) ==
  ~\E i \in 1..Len(stalls) : body.stallId = Some(stalls[i].id)

EmptyFoodItems(body) == Len(sanitizeText(OrElse(body.foodItems, <<>>))) = 0

\* a delivery block id is supplied (the field is there and is not the empty
\* text) and no stored block has it
UnknownSuppliedBlock(body) ==
  /\ IsSome(body.deliveryBlockId)
  /\ Val(body.deliveryBlockId) # ""
  /\ ~\E i \in 1..Len(blocks) : blocks[i].id = Val(body.deliveryBlockId)

MustBeRejected(body) ==
  \/ BadFoodTotal(body)
  \/ UnknownStall(body)
  \/ EmptyFoodItems(body)
  \/ UnknownSuppliedBlock(body)

C21_InvalidRequestsRejected ==
  [][(req' # req \/ res' # res \/ deliveryRequests' # deliveryRequests) =>
       (MustBeRejected(Val(req')) =>
          /\ Val(res').status = 400
          /\ deliveryRequests' = deliveryRequests)]_vars

\* a request for an unknown block is refused while a request is in store
C21_Witness ==
  /\ Len(deliveryRequests) = 1
  /\ IsSome(req)
  /\ UnknownSuppliedBlock(Val(req))
  /\ Val(res).status = 400

(***************************************************************************)
(* C22: sanitizeText returns a text of at most 500 characters that         *)
(* contains none of the characters <, >, ", ' and /, whatever text it is   *)
(* given; the foodItems, pickupLocation and deliveryLocation a stored      *)
(* delivery request carries are such texts.                                *)
(***************************************************************************)
ForbiddenCharacters == {"<", ">", "\"", "'", "/"}

IsSanitized(t) ==
  /\ Len(t) <= 500
  /\ \A i \in 1..Len(t) : t[i] \notin ForbiddenCharacters

\* the texts of a request body that the handler sanitizes
TextsOf(body) ==
  {OrElse(body.foodItems, <<>>), OrElse(body.pickupLocation, <<>>),
   OrElse(body.deliveryLocation, <<>>)}

\* the texts a stored request carries
StoredTextsOf(r) ==
  {Val(t) : t \in {u \in {r.foodItems, r.pickupLocation, r.deliveryLocation} : IsSome(u)}}

C22_SanitizedTexts ==
  /\ IsSome(req) => \A t \in TextsOf(Val(req)) : IsSanitized(sanitizeText(t))
  /\ \A k \in 1..Len(deliveryRequests) :
       \A t \in StoredTextsOf(deliveryRequests[k]) : IsSanitized(t)

\* a stored request whose food items were cut to 500 characters
C22_Witness ==
  /\ Len(deliveryRequests) = 1
  /\ IsSome(req)
  /\ Val(req).foodItems = Some(StrLongText)
  /\ IsSome(deliveryRequests[1].foodItems)
  /\ Len(Val(deliveryRequests[1].foodItems)) = 500

(***************************************************************************)
(* C23: the limits are inclusive for the hard filters and exclusive for    *)
(* the scores.  A stall whose wait equals the effective maximum queue time *)
(* is not removed by the queue filter and has queueScore 0; a stall whose  *)
(* defined distance equals the effective maximum walking distance is not   *)
(* removed by the distance filter and has proximityScore 0; below the      *)
(* limit the scores are 1 - wait / max and 1 - distance / max.             *)
(***************************************************************************)
AtQueueLimit(i) == stalls[i].estimatedWaitTime = MaxQueueTimeUsed

AtDistanceLimit(i) ==
  IsSome(DistanceOf(i)) /\ NumEq(Val(DistanceOf(i)), MaxWalkingDistanceUsed)

C23_LimitsInclusive ==
  Returned =>
    /\ \A i \in 1..Len(stalls) :
         LET d == DistanceOf(i)
             wait == stalls[i].estimatedWaitTime
             distanceKeeps == ~(IsSome(d) /\ NumGt(Val(d), MaxWalkingDistanceUsed))
             atDistanceLimit == IsSome(d) /\ NumEq(Val(d), MaxWalkingDistanceUsed)
         IN  /\ (wait = MaxQueueTimeUsed /\ distanceKeeps) => i \in FilteredIds
             /\ (atDistanceLimit /\ wait <= MaxQueueTimeUsed) => i \in FilteredIds
    /\ \A k \in 1..Len(scoredStalls) :
         LET d == scoredStalls[k].distance
             wait == scoredStalls[k].stall.estimatedWaitTime
             b == scoredStalls[k].breakdown
         IN  /\ wait = MaxQueueTimeUsed => b.queueScore = Zero
             /\ wait < MaxQueueTimeUsed =>
                  b.queueScore =
                    NumSub(One, NumDiv(Int2Num(wait), Int2Num(MaxQueueTimeUsed)))
             /\ (IsSome(d) /\ NumEq(Val(d), MaxWalkingDistanceUsed)) =>
                  b.proximityScore = Zero
             /\ (IsSome(d) /\ NumGt(MaxWalkingDistanceUsed, Val(d))) =>
                  b.proximityScore = NumSub(One, NumDiv(Val(d), MaxWalkingDistanceUsed))

\* a returned stall that is at both limits at once (wait 20 of 20 minutes,
\* 300 of 300 metres)
C23_Witness ==
  /\ Returned
  /\ Len(stalls) = 1
  /\ AtQueueLimit(1)
  /\ AtDistanceLimit(1)
  /\ Len(result) = 1
  /\ result[1].breakdown.queueScore = Zero
  /\ result[1].breakdown.proximityScore = Zero

(***************************************************************************)
(* C24: whatever sequence of requests to the routes that create, accept    *)
(* and update delivery requests has been served, the status of every       *)
(* stored delivery request is one of pending, accepted, picked_up,         *)
(* delivering, delivered and cancelled; and a request just created has the *)
(* status pending and no delivery person.                                  *)
(***************************************************************************)
\* the last request served created a delivery request
JustCreated ==
  /\ IsSome(req)
  /\ "foodItems" \in DOMAIN Val(req)
  /\ Val(res).status = 200

C24_NewRequestPending ==
  JustCreated =>
    /\ Val(Val(res).created).status = "pending"
    /\ Val(Val(res).created).deliveryPersonId = None

C24_StatusAlwaysListed ==
  /\ \A k \in 1..Len(deliveryRequests) :
       deliveryRequests[k].status \in DeliveryStatuses
  /\ C24_NewRequestPending

(***************************************************************************)
(* C25: the soft filter removes only stalls with a dietary conflict.  For  *)
(* a stall whose rating is absent or not negative and whose wait is not    *)
(* negative: if it passes the hard filters and its preferenceScore is 0.3, *)
(* 0.5 or 1.0, its total score is above 0.1 and it is returned.            *)
(***************************************************************************)
RatingAbsentOrNotNegative(stall) ==
  \/ ~Truthy(stall.rating)
  \/ NumGe(parseFloat(Val(stall.rating)), Zero)

C25_Precondition(stall) ==
  stall.estimatedWaitTime >= 0 /\ RatingAbsentOrNotNegative(stall)

DistanceUndefinedOrNumber(e) == IsNone(e.distance) \/ ~IsNaN(Val(e.distance))

BlocksOfCanteen(canteenId) ==
  {i \in 1..Len(blocks) : blocks[i].nearestCanteenId = Some(canteenId)}

FirstBlockOfCanteen(canteenId) ==
  blocks[CHOOSE i \in BlocksOfCanteen(canteenId) :
           \A j \in BlocksOfCanteen(canteenId) : i <= j]

HasNoCoordinates(block) == ~Truthy(block.latitude) \/ ~Truthy(block.longitude)

C26_DistanceFromFirstBlock ==
  Returned =>
    /\ \A k \in 1..Len(filteredStalls) :
         LET e == filteredStalls[k]
             cid == e.stall.canteenId
         IN  /\ IsSome(e.distance) => BlocksOfCanteen(cid) # {}
             /\ BlocksOfCanteen(cid) # {} =>
                  LET first == FirstBlockOfCanteen(cid)
                  IN  /\ HasNoCoordinates(first) => e.distance = None
                      /\ IsSome(e.distance) =>
                           e.distance =
                             Some(calculateDistance(
                               parseFloat(OrElse(Val(userBlock).latitude, StrZero)),
                               parseFloat(OrElse(Val(userBlock).longitude, StrZero)),
                               parseFloat(Val(first.latitude)),
                               parseFloat(Val(first.longitude))))
    /\ \A k, j \in 1..Len(scoredStalls) :
         scoredStalls[k].stall.canteenId = scoredStalls[j].stall.canteenId =>
           /\ scoredStalls[k].distance = scoredStalls[j].distance
           /\ scoredStalls[k].breakdown.proximityScore =
                scoredStalls[j].breakdown.proximityScore

\* two stalls of the canteen whose first block has no coordinates and whose
\* second block has them: both without a distance, for a located user
C26_Witness ==
  /\ Returned
  /\ IsSome(userBlock)
  /\ Truthy(Val(userBlock).latitude)
  /\ Len(scoredStalls) = 2
  /\ scoredStalls[1].stall.canteenId = scoredStalls[2].stall.canteenId
  /\ Cardinality(BlocksOfCanteen(scoredStalls[1].stall.canteenId)) = 2
  /\ HasNoCoordinates(FirstBlockOfCanteen(scoredStalls[1].stall.canteenId))
  /\ scoredStalls[1].distance = None
  /\ scoredStalls[2].distance = None

(***************************************************************************)
(* C27: in MemStorage, after construction and after any sequence of        *)
(* createCanteen, createStall, deleteStall and deleteCanteen calls, the    *)
(* totalStalls of every stored canteen is the number of stored stalls      *)
(* whose canteenId is the id of that canteen, and is never negative.       *)
(***************************************************************************)
StallsOfCanteen(canteenId) ==
  {i \in 1..Len(stalls) : stalls[i].canteenId = canteenId}

C27_TotalStallsIsTheCount ==
  \A k \in 1..Len(canteens) :
    /\ canteens[k].totalStalls = Cardinality(StallsOfCanteen(canteens[k].id))
    /\ canteens[k].totalStalls >= 0

\* a seeded canteen that has lost every stall beside a created canteen that
\* has got one
C27_Witness ==
  /\ \E k \in 1..Len(canteens) :
       canteens[k].id < FirstFreeId /\ canteens[k].totalStalls = 0
  /\ \E k \in 1..Len(canteens) :
       canteens[k].id >= FirstFreeId /\ canteens[k].totalStalls = 1

(***************************************************************************)
(* C28: in DbStorage, whatever the interleaving of the statements of       *)
(* concurrent createStall, deleteStall and deleteCanteen calls, once every *)
(* call has completed the totalStalls of every remaining canteen is the    *)
(* number of remaining stalls of that canteen; two concurrent deleteStall  *)
(* calls for one stall decrement the count once.                           *)
(***************************************************************************)
AllCompleted == \A t \in 1..Len(tasks) : tasks[t].pc = "done"

C28_CountsAgreeOnceQuiet ==
  AllCompleted =>
    \A k \in 1..Len(canteens) :
      canteens[k].totalStalls = Cardinality(StallsOfCanteen(canteens[k].id))

(***************************************************************************)
(* C29: after any sequence of createRating calls, every stored stall and   *)
(* vendor that has a stored rating has the number of its stored ratings as *)
(* reviewCount and their mean, rounded to two decimals, as rating; a stall *)
(* or vendor without a stored rating keeps the rating and reviewCount it   *)
(* had; a rating for an entity that is not stored changes no stall and no  *)
(* vendor.                                                                 *)
(***************************************************************************)
RatingsOf(entityType, entityId) ==
  {i \in 1..Len(ratings) :
     ratings[i].entityType = entityType /\ ratings[i].entityId = entityId}

RECURSIVE SumOver(_)
SumOver(S) ==
  IF S = {} THEN 0
  ELSE LET i == CHOOSE i \in S : TRUE IN ratings[i].rating + SumOver(S \ {i})

MeanText(S) == toFixed2(Num(SumOver(S), Cardinality(S)))

AggregateAgrees(row, entityType) ==
  LET S == RatingsOf(entityType, row.id)
  IN  IF S = {}
      THEN row.rating = Some(StrSeedRating) /\ row.reviewCount = SeedReviewCount
      ELSE row.reviewCount = Cardinality(S) /\ row.rating = Some(MeanText(S))

C29_AggregatesFollowRatings ==
  /\ \A k \in 1..Len(stalls) : AggregateAgrees(stalls[k], "stall")
  /\ \A k \in 1..Len(vendors) : AggregateAgrees(vendors[k], "vendor")

(***************************************************************************)
(* C30: in DbStorage, when createRating calls for one entity are served at *)
(* the same time, once all have completed the reviewCount of the entity is *)
(* the number of its stored ratings and its rating is their mean: no call  *)
(* overwrites the aggregate with one computed from fewer ratings.          *)
(***************************************************************************)
C30_AggregatesAgreeOnceQuiet == AllCompleted => C29_AggregatesFollowRatings

====
